---- MODULE Spec2Model ----
(***************************************************************************)
(* GPU monitor: the time-series store (SQLite table gpu_metrics), the load *)
(* generators that fill it, the trim (prune + VACUUM) operation and the    *)
(* export of the snapshot document history.json.                           *)
(*                                                                         *)
(* Time is counted in ticks of 1/Res second, so that datetime values carry *)
(* a sub-second part and int(x.timestamp()) is a real truncation.          *)
(***************************************************************************)
EXTENDS Integers, Sequences, FiniteSets, TLC

\* ------------------------------------------------------------------ bounds
Res == 2              \* clock ticks per second
MaxTicks == 1         \* how far the clock advances during a behaviour
MaxId == 2            \* AUTOINCREMENT ids handed out during a behaviour
MaxMetrics == 2       \* longest list one generate_metrics call may build
MaxOld == 2           \* largest num_records given to add_old_records
FlushTokens == 6      \* tokens one flush of the file buffer carries
DstShift == 3600      \* seconds the local clock jumps at a zone transition
MaxLoopTicks == 3     \* ticks the sampling loop begins during a behaviour
CompactEvery == 2     \* the compactor is due on every CompactEvery-th tick

\* ------------------------------------------------------- program constants
Horizon == 87000          \* timedelta(hours=24, minutes=10), seconds
Horizon3d == 259800       \* timedelta(days=3, minutes=10), seconds
Span3d == 259200          \* timedelta(days=3), seconds
OldEnd == 172800          \* timedelta(days=2), seconds
OldSpan == 604800         \* timedelta(days=7), seconds
OldBatch == 10000         \* batch_size of add_old_records
YearLen == 31536000       \* seconds after which "%m-%d %H:%M:%S" repeats
Now0 == Res * (YearLen + 40000) + Res - 1   \* the clock at the start: early
                                            \* in a year, late in a second

TempLo == 20
TempHi == 95
UtilLo == 0
UtilHi == 100
MemLo == 500
MemHi == 12000
PowerLo == 10
PowerHi == 350
PowerNA == 0              \* what the "N/A" power reading is stored as

\* --------------------------------------------------------- pure functions
Min2(a, b) == IF a <= b THEN a ELSE b
Max2(a, b) == IF a >= b THEN a ELSE b

\* Clamp without its upper bound: max(lo, x)
ClampNoUpper(lo, hi, x) == Max2(lo, x)

\* max(lo, min(hi, x))
Clamp(lo, hi, x) == Max2(lo, Min2(hi, x))

\* The zone of the host. Datetimes are naive local times: a tick count t is
\* a reading of the local wall clock. From local time zone.from on the
\* local clock is zone.shift ticks ahead of where it was (shift > 0: clocks
\* went forward, shift < 0: clocks went back, shift = 0: a fixed offset).
VARIABLE zone

FixedZone == [from |-> 0, shift |-> 0]

\* the zones a generator run is checked under: a fixed offset, and a
\* transition forward or back inside the span the generator covers
Zones ==
  { FixedZone,
    [from |-> Now0 - 1, shift |-> DstShift * Res],
    [from |-> Now0 - 1, shift |-> 0 - DstShift * Res] }

\* t.timestamp() of a naive datetime (fold = 0), in ticks: a local time
\* that the forward jump skipped is read with the offset before the jump,
\* a local time that occurs twice is read as its first occurrence
Timestamp(t) == IF t >= zone.from THEN t - zone.shift ELSE t

\* int(t.timestamp()): whole seconds
EpochOf(t) == Timestamp(t) \div Res

\* t.strftime("%m-%d %H:%M:%S"): second of the year, the year is dropped
Strftime(t) == (t \div Res) % YearLen

\* the raw values a generator computes before it clamps them
RawReadings ==
  { [temp |-> -273, util |-> 0,   mem |-> 99999, power |-> 0],
    [temp |-> 95,   util |-> 101, mem |-> 500,   power |-> 351] }

\* db_load_test.generate_metrics, one loop body: clamp and build the tuple
MetricLoad(t, raw) ==
  [ timestamp       |-> Strftime(t),
    timestamp_epoch |-> EpochOf(t),
    temperature     |-> Clamp(TempLo, TempHi, raw.temp),
    utilization     |-> Clamp(UtilLo, UtilHi, raw.util),
    memory          |-> Clamp(MemLo, MemHi, raw.mem),
    power           |-> Clamp(PowerLo, PowerHi, raw.power) ]

\* Metric3d without the lower clamp of power: min(350, power)
Metric3dNoFloor(t, raw, na) ==
  [ timestamp       |-> Strftime(t),
    timestamp_epoch |-> EpochOf(t),
    temperature     |-> Clamp(TempLo, TempHi, raw.temp),
    utilization     |-> Clamp(UtilLo, UtilHi, raw.util),
    memory          |-> Clamp(MemLo, MemHi, raw.mem),
    power           |-> IF na THEN PowerNA ELSE Min2(PowerHi, raw.power) ]

\* db_load_3d_test.generate_metrics, one loop body: clamp, then the
\* occasional "N/A" power reading, which is stored as 0
Metric3d(t, raw, na) ==
  [ timestamp       |-> Strftime(t),
    timestamp_epoch |-> EpochOf(t),
    temperature     |-> Clamp(TempLo, TempHi, raw.temp),
    utilization     |-> Clamp(UtilLo, UtilHi, raw.util),
    memory          |-> Clamp(MemLo, MemHi, raw.mem),
    power           |-> IF na THEN PowerNA
                        ELSE Clamp(PowerLo, PowerHi, raw.power) ]

\* test_trimming.add_old_records, the i-th record
MetricOld(t, i) ==
  [ timestamp       |-> Strftime(t),
    timestamp_epoch |-> EpochOf(t),
    temperature     |-> 50 + (i % 20),
    utilization     |-> 30 + (i % 50),
    memory          |-> 2000 + (i % 4000),
    power           |-> 100 + (i % 150) ]

\* the schema objects create_db_schema names
TableName == "gpu_metrics"
IndexName == "idx_gpu_metrics_timestamp_epoch"

\* the columns of gpu_metrics
Columns ==
  { "id", "timestamp", "timestamp_epoch", "temperature", "utilization",
    "memory", "power" }

\* create_db_schema that leaves the index out
CreateSchemaNoIndex(sch) == sch \cup {TableName}

\* CREATE TABLE IF NOT EXISTS gpu_metrics; CREATE INDEX IF NOT EXISTS
\* idx_gpu_metrics_timestamp_epoch: each object is added unless it exists
CreateSchema(sch) == sch \cup {TableName, IndexName}

\* a row of gpu_metrics: the tuple plus its AUTOINCREMENT id
RowOf(id, m) ==
  [ id              |-> id,
    timestamp       |-> m.timestamp,
    timestamp_epoch |-> m.timestamp_epoch,
    temperature     |-> m.temperature,
    utilization     |-> m.utilization,
    memory          |-> m.memory,
    power           |-> m.power ]

\* the rows an executemany inserts for a batch, ids counted from `first`
RowsOf(first, batch) ==
  { RowOf(first + k - 1, batch[k]) : k \in 1..Len(batch) }

\* metrics[i:i+batch_size] with a 0-based i
Slice(s, i, n) == SubSeq(s, i + 1, Min2(Len(s), i + n))

\* SELECT COUNT(*) FROM gpu_metrics
count_records(rows) == Cardinality(rows)

\* Prune with <= in place of <
PruneLe(rows, cutoff) == { r \in rows : ~(r.timestamp_epoch <= cutoff) }

\* Prune comparing the display column: WHERE timestamp < cutoff
PruneByTimestamp(rows, cutoff) == { r \in rows : ~(r.timestamp < cutoff) }

\* DELETE FROM gpu_metrics WHERE timestamp_epoch < cutoff
Prune(rows, cutoff) == { r \in rows : ~(r.timestamp_epoch < cutoff) }

\* DeletedCount that forgets to subtract
DeletedCountBefore(before, after) == before

\* before_count - after_count
DeletedCount(before, after) == before - after

\* int((datetime.now() - timedelta(...)).timestamp())
CutoffOf(t, horizon) == EpochOf(t - horizon * Res)

\* Window with >= in place of >
WindowGe(rows, cutoff) == { r \in rows : r.timestamp_epoch >= cutoff }

\* WHERE timestamp_epoch > cutoff
Window(rows, cutoff) == { r \in rows : r.timestamp_epoch > cutoff }

\* ORDER BY timestamp_epoch ASC: every listing of the ids of `rows` whose
\* epochs never decrease (SQL leaves the order of equal keys open)
RowById(rows, id) == CHOOSE r \in rows : r.id = id
Orderings(rows) ==
  LET ids == { r.id : r \in rows }
      n == Cardinality(rows)
  IN { s \in [1..n -> ids] :
         /\ \A i, j \in 1..n : i # j => s[i] # s[j]
         /\ \A i \in 1..(n - 1) :
              RowById(rows, s[i]).timestamp_epoch
                <= RowById(rows, s[i + 1]).timestamp_epoch }

\* BuildResult that appends power only when it is truthy: `if power:`
Truthy(s) == SelectSeq(s, LAMBDA v : v # 0)
BuildResultSkipsZero(rows, order) ==
  [ timestamps   |-> [i \in 1..Len(order) |-> RowById(rows, order[i]).timestamp],
    temperatures |-> [i \in 1..Len(order) |-> RowById(rows, order[i]).temperature],
    utilizations |-> [i \in 1..Len(order) |-> RowById(rows, order[i]).utilization],
    memory       |-> [i \in 1..Len(order) |-> RowById(rows, order[i]).memory],
    power        |-> Truthy([i \in 1..Len(order) |->
                              RowById(rows, order[i]).power]) ]

\* the loop over cur.fetchall(): five parallel lists
BuildResult(rows, order) ==
  [ timestamps   |-> [i \in 1..Len(order) |-> RowById(rows, order[i]).timestamp],
    temperatures |-> [i \in 1..Len(order) |-> RowById(rows, order[i]).temperature],
    utilizations |-> [i \in 1..Len(order) |-> RowById(rows, order[i]).utilization],
    memory       |-> [i \in 1..Len(order) |-> RowById(rows, order[i]).memory],
    power        |-> [i \in 1..Len(order) |-> RowById(rows, order[i]).power] ]

EmptyResult ==
  [ timestamps |-> <<>>, temperatures |-> <<>>, utilizations |-> <<>>,
    memory |-> <<>>, power |-> <<>> ]

\* json.dump(result, f): the text as a sequence of tokens
Tok(k, v) == [kind |-> k, val |-> v]
Vals(s) == [i \in 1..Len(s) |-> Tok("num", s[i])]
Dump(doc) ==
  <<Tok("open", 0)>>
    \o <<Tok("key", 1)>> \o Vals(doc.timestamps)
    \o <<Tok("key", 2)>> \o Vals(doc.temperatures)
    \o <<Tok("key", 3)>> \o Vals(doc.utilizations)
    \o <<Tok("key", 4)>> \o Vals(doc.memory)
    \o <<Tok("key", 5)>> \o Vals(doc.power)
    \o <<Tok("close", 0)>>

\* what a reader of the file can parse: a text that opens, names the five
\* keys in turn and closes
KeyAt(text, k) == CHOOSE i \in 1..Len(text) : text[i] = Tok("key", k)
Parses(text) ==
  /\ Len(text) >= 7
  /\ text[1] = Tok("open", 0)
  /\ text[Len(text)] = Tok("close", 0)
  /\ \A k \in 1..5 : \E i \in 1..Len(text) : text[i] = Tok("key", k)
ArrayAt(text, k) ==
  LET from == KeyAt(text, k) + 1
      to == IF k = 5 THEN Len(text) - 1 ELSE KeyAt(text, k + 1) - 1
  IN [i \in 1..(to - from + 1) |-> text[from + i - 1].val]
Load(text) ==
  [ timestamps   |-> ArrayAt(text, 1),
    temperatures |-> ArrayAt(text, 2),
    utilizations |-> ArrayAt(text, 3),
    memory       |-> ArrayAt(text, 4),
    power        |-> ArrayAt(text, 5) ]

NoFile == <<Tok("absent", 0)>>
NoRead == <<Tok("unread", 0)>>

\* CloseConn that commits what the open transaction holds
CloseConnCommits(rows, tx) == rows \cup tx

\* conn.close() in main's finally with a transaction still open: the
\* uncommitted rows are rolled back
CloseConn(rows, tx) == rows

\* conn.commit(): the rows of the open transaction become visible
Commit(rows, tx) == rows \cup tx

\* Vacuum that rewrites the file without copying the rows
VacuumEmpties(rows) == {}

\* VACUUM: the file is rewritten with the rows it holds; gpu_metrics has an
\* INTEGER PRIMARY KEY, so the ids stay as they are
Vacuum(rows) == rows

\* OldEndTime a week ahead of the clock
OldEndTimeAhead(t) == t + OldSpan * Res

\* add_old_records: end_time = datetime.now() - timedelta(days=2)
OldEndTime(t) == t - OldEnd * Res

\* ClearTable without the DELETE
ClearTableKeeps(rows) == rows

\* populate_database: DELETE FROM gpu_metrics; commit
ClearTable(rows) == {}

\* the grace margin of the 3-day export: 3 days 10 minutes less 3 days
Margin3d == Horizon3d - Span3d

\* ------------------------------------------------------------------ inputs
\* ceil(span / interval): the length of the list generate_metrics builds
GenCount(span, step) == IF span <= 0 THEN 0 ELSE (span + step - 1) \div step

\* --hours, --interval and --batch-size of db_load_test.py, in ticks
LoadArgs ==
  { a \in [ hours    : { 2, Horizon * Res - Res, Horizon * Res,
                         Horizon * Res + Res },
            interval : { 1, Horizon * Res },
            batch    : { 1, 1000 } ] :
      GenCount(a.hours, a.interval) <= MaxMetrics }

\* --interval and --batch-size of db_load_3d_test.py, in ticks
Load3dArgs ==
  { a \in [ interval : { Span3d * Res, (Span3d * Res) \div 2 + 1 },
            batch    : { 1, 1000 } ] :
      GenCount(Span3d * Res, a.interval) <= MaxMetrics }

\* ------------------------------------------------------------------- state
VARIABLES
  now,           \* the wall clock, in ticks
  dbFile,        \* the database file exists
  schema,        \* the tables and indexes the database has, by name
  store,         \* the committed rows of gpu_metrics
  nextId,        \* the next AUTOINCREMENT id
  txn,           \* rows inserted by the open transaction
  inTxn,         \* the connection has a transaction open
  history_json,  \* the text of history.json, NoFile before the first export
  pc,            \* where the running script is
  script,        \* which script runs: load, load3d, trim, prune
  current_time, end_time, interval,   \* locals of the generator loops
  metrics,       \* the list generate_metrics / add_old_records builds
  batch_size, i, num_records,
  export_time,   \* datetime.now() as create_history_json read it
  cutoff_time,
  result,        \* the document create_history_json builds
  before_count, after_count, deleted_count,
  outcome,       \* how the last script ended
  observed,      \* what a reader of history.json got during the export
  \* history variables, read by the properties only
  na_readings,   \* which entries of metrics had an "N/A" power reading
  na_ids,        \* ids of the rows that came from such a reading
  order,         \* ids of the rows the export query returned, in order
  begin_store,   \* the committed rows when the last write began
  prev_file,     \* history.json as it was when the export began
  last_prune     \* cutoff of the last prune; fresh: no insert since

\* no_docker.py: the installer process and the host it works on
VARIABLES
  ipc,             \* where the installer is: idle, run, wait, poll, return,
                   \* exited
  cmd,             \* the command line option of main, or "call" for a
                   \* method called on the installer object directly
  method,          \* the method that runs or has just returned
  ret,             \* what it returned: "True", "False", or "raise"
  env,             \* what the host answered during this call
  ran,             \* the methods main has called, each with its result
  printed,         \* the messages main has printed
  exit_status,     \* << the exit status of the process >>, <<>> before
  polls,           \* turns of the loop in check_service_status so far
  slept,           \* seconds check_service_status has slept
  systemctl,       \* the systemctl subcommands this call has run
  nvidia_smi_path, \* self.nvidia_smi_path is set
  service_file,    \* /etc/systemd/system/gpu-monitor.service exists
  app_dir,         \* /opt/gpu-monitor exists
  script_file,     \* /opt/gpu-monitor/monitor_gpu.sh exists
  log_files,       \* which of service.log, error.log exist
  stats_file,      \* gpu_current_stats.json: absent, invalid or valid
  service,         \* the systemd unit: inactive or running
  monitor          \* monitor_gpu.sh run by start_service: none, running,
                   \* exited

\* the sampling loop of the monitor
VARIABLES
  loop,            \* the state of the loop: Starting, Idle, Acquiring,
                   \* Sanitizing, Storing, Compacting, Exporting, Stopped
  ticks,           \* ticks begun so far
  steps,           \* the steps of the current tick that were carried out
  reading,         \* the raw reading of the current tick
  sample,          \* the sanitized sample of the current tick
  failure,         \* the transient failure of the current tick, if any
  shutdown,        \* a shutdown signal has arrived
  stopped_by       \* why the loop reached Stopped

\* the scripts and their database
scriptVars ==
  << now, dbFile, schema, store, nextId, txn, inTxn, history_json, pc, script,
     current_time, end_time, interval, metrics, batch_size, i, num_records,
     export_time, cutoff_time, result, before_count, after_count,
     deleted_count, outcome, observed, na_readings, na_ids, order,
     begin_store, prev_file, last_prune >>

procVars ==
  << ipc, cmd, method, ret, env, ran, printed, exit_status, polls, slept,
     systemctl, nvidia_smi_path >>
fsVars == << service_file, app_dir, script_file, log_files, stats_file >>
unitVars == << service, monitor >>

monVars ==
  << loop, ticks, steps, reading, sample, failure, shutdown, stopped_by >>

\* -------------------------------------------------- state of the store
\* under two writer tasks and a reader
VARIABLES
  committed,     \* the rows of gpu_metrics in the database file
  db_next,       \* the next AUTOINCREMENT id of that file
  lock,          \* the task holding the write lock of the file, or "none"
  tx,            \* the transaction each task has open, or "idle"
  pending,       \* the uncommitted changes of each task's transaction
  prune_cutoff,  \* the cutoff of the compactor's prune
  view,          \* what the last export read returned
  snapshots      \* every content the file held after a commit

txVars ==
  << committed, db_next, lock, tx, pending, prune_cutoff, view, snapshots >>

\* ------------------------------------------------- state of server.py
VARIABLES
  files,         \* the regular files of the served directory, by path
  dirs,          \* its directories, by path
  serving,       \* where the request in flight is
  request,       \* request.path of the request in flight
  response,      \* what handle_static returned
  answer         \* what the client received

webVars == << files, dirs, serving, request, response, answer >>

\* the zone and what else the scripts, the installer and the loop leave alone
envVars == << zone, txVars, webVars >>

\* the host around the scripts
hostVars == << envVars, procVars, fsVars, unitVars, monVars >>

vars == << scriptVars, hostVars >>

dbVars == << store, nextId, txn, inTxn, na_ids >>
genVars == << current_time, end_time, interval, metrics, na_readings >>
loopVars == << batch_size, i, num_records >>
expVars == << export_time, result, order, prev_file, observed >>
trimVars == << before_count, after_count, deleted_count >>

\* no script runs, no database file and no history.json yet
Idle ==
  /\ now = Now0
  /\ dbFile = FALSE
  /\ schema = {}
  /\ store = {}
  /\ nextId = 1
  /\ txn = {}
  /\ inTxn = FALSE
  /\ history_json = NoFile
  /\ pc = "idle"
  /\ script = "none"
  /\ current_time = 0
  /\ end_time = 0
  /\ interval = 0
  /\ metrics = <<>>
  /\ batch_size = 0
  /\ i = 0
  /\ num_records = 0
  /\ export_time = 0
  /\ cutoff_time = 0
  /\ result = EmptyResult
  /\ before_count = 0
  /\ after_count = 0
  /\ deleted_count = 0
  /\ outcome = "none"
  /\ observed = NoRead
  /\ na_readings = <<>>
  /\ na_ids = {}
  /\ order = <<>>
  /\ begin_store = {}
  /\ prev_file = NoFile
  /\ last_prune = [cutoff |-> 0, fresh |-> FALSE, repeat |-> FALSE]

\* what env holds while no call is in progress
NoEnv == [none |-> TRUE]

\* no installer process
NoProcess ==
  /\ ipc = "idle"
  /\ cmd = "none"
  /\ method = "none"
  /\ ret = "none"
  /\ env = NoEnv
  /\ ran = <<>>
  /\ printed = {}
  /\ exit_status = <<>>
  /\ polls = 0
  /\ slept = 0
  /\ systemctl = <<>>
  /\ nvidia_smi_path = FALSE

\* a host on which GPU Monitor was never installed
CleanHost ==
  /\ service_file = FALSE
  /\ app_dir = FALSE
  /\ script_file = FALSE
  /\ log_files = {}
  /\ stats_file = "absent"
  /\ service = "inactive"
  /\ monitor = "none"

\* what reading and sample hold between ticks
NoReading == [raw |-> [none |-> TRUE], na |-> FALSE]
NoSample == [none |-> TRUE]

\* the monitor has not been started
NoLoop ==
  /\ loop = "Starting"
  /\ ticks = 0
  /\ steps = <<>>
  /\ reading = NoReading
  /\ sample = NoSample
  /\ failure = "none"
  /\ shutdown = FALSE
  /\ stopped_by = "none"

\* the two tasks that write to the store
Tasks == {"tick", "compactor"}

NoPending == [ins |-> {}, del |-> {}, left |-> 0]
NoView == [taken |-> FALSE, cutoff |-> 0, rows |-> {}]

\* no task has touched the store
NoTasks ==
  /\ committed = {}
  /\ db_next = 1
  /\ lock = "none"
  /\ tx = [t \in Tasks |-> "idle"]
  /\ pending = [t \in Tasks |-> NoPending]
  /\ prune_cutoff = 0
  /\ view = NoView
  /\ snapshots = {}

NoRequest == <<>>
NoResponse == [type |-> "none", path |-> <<>>, status |-> 0]
NoAnswer == [status |-> 0, body |-> <<>>]

\* the server is not running and its directory is empty
NoServer ==
  /\ files = {}
  /\ dirs = {}
  /\ serving = "idle"
  /\ request = NoRequest
  /\ response = NoResponse
  /\ answer = NoAnswer

\* the scripts on a host whose zone has no transition in the spans they cover
Init ==
  /\ zone = FixedZone
  /\ Idle
  /\ NoProcess
  /\ CleanHost
  /\ NoLoop
  /\ NoTasks
  /\ NoServer

\* the locals of a script are gone when it ends
ResetLocals ==
  /\ current_time' = 0
  /\ end_time' = 0
  /\ interval' = 0
  /\ metrics' = <<>>
  /\ na_readings' = <<>>
  /\ batch_size' = 0
  /\ i' = 0
  /\ num_records' = 0
  /\ export_time' = 0
  /\ cutoff_time' = 0
  /\ result' = EmptyResult
  /\ order' = <<>>
  /\ before_count' = 0
  /\ after_count' = 0
  /\ deleted_count' = 0
  /\ observed' = NoRead

\* ------------------------------------------------------------ the clock
\* The clock is read by the Start actions, ExpQuery and TrimBefore only, so
\* time that passes elsewhere is the same as time passing right before them.
Tick ==
  /\ pc \in {"idle", "exp_query", "trim_before"}
  /\ now < Now0 + MaxTicks
  /\ now' = now + 1
  /\ UNCHANGED hostVars
  /\ UNCHANGED << dbFile, schema, dbVars, history_json, pc, script, genVars,
                  loopVars, expVars, cutoff_time, trimVars, outcome,
                  begin_store, last_prune >>

\* ------------------------------------------------- db_load_test.py: main
\* lines 193-206: end_time = datetime.now(), start_time = end_time - hours,
\* sqlite3.connect creates the database file
StartLoad ==
  /\ pc = "idle"
  /\ \E a \in LoadArgs :
       /\ nextId + GenCount(a.hours, a.interval) - 1 <= MaxId
       /\ end_time' = now
       /\ current_time' = now - a.hours
       /\ interval' = a.interval
       /\ batch_size' = a.batch
  /\ script' = "load"
  /\ dbFile' = TRUE
  /\ pc' = "schema"
  /\ UNCHANGED hostVars
  /\ UNCHANGED << now, schema, dbVars, history_json, metrics, na_readings, i,
                  num_records, expVars, cutoff_time, trimVars, outcome,
                  begin_store, last_prune >>

\* db_load_3d_test.py, main, lines 263-276: the span is three days
StartLoad3d ==
  /\ pc = "idle"
  /\ \E a \in Load3dArgs :
       /\ nextId + GenCount(Span3d * Res, a.interval) - 1 <= MaxId
       /\ end_time' = now
       /\ current_time' = now - Span3d * Res
       /\ interval' = a.interval
       /\ batch_size' = a.batch
  /\ script' = "load3d"
  /\ dbFile' = TRUE
  /\ pc' = "schema"
  /\ UNCHANGED hostVars
  /\ UNCHANGED << now, schema, dbVars, history_json, metrics, na_readings, i,
                  num_records, expVars, cutoff_time, trimVars, outcome,
                  begin_store, last_prune >>

\* CREATE TABLE IF NOT EXISTS ...; CREATE INDEX IF NOT EXISTS ...; commit:
\* neither statement touches a row, and neither fails on an object that
\* is there already
create_db_schema ==
  /\ pc = "schema"
  /\ schema' = CreateSchema(schema)
  /\ pc' = "gen"
  /\ UNCHANGED hostVars
  /\ UNCHANGED << now, dbFile, dbVars, history_json, script, genVars,
                  loopVars, expVars, cutoff_time, trimVars, outcome,
                  begin_store, last_prune >>

\* one turn of `while current_time < end_time` in generate_metrics
generate_metrics ==
  /\ pc = "gen"
  /\ IF current_time < end_time
       THEN /\ \E raw \in RawReadings :
                 \E na \in (IF script = "load3d" THEN BOOLEAN ELSE {FALSE}) :
                   /\ metrics' = Append(metrics,
                        IF script = "load3d"
                          THEN Metric3d(current_time, raw, na)
                          ELSE MetricLoad(current_time, raw))
                   /\ na_readings' = Append(na_readings, na)
            /\ current_time' = current_time + interval
            /\ pc' = "gen"
       ELSE /\ pc' = "pop_clear"
            /\ UNCHANGED << metrics, na_readings, current_time >>
  /\ UNCHANGED hostVars
  /\ UNCHANGED << now, dbFile, schema, dbVars, history_json, script, end_time,
                  interval, loopVars, expVars, cutoff_time, trimVars, outcome,
                  begin_store, last_prune >>

\* populate_database: DELETE FROM gpu_metrics; commit
PopClear ==
  /\ pc = "pop_clear"
  /\ store' = ClearTable(store)
  /\ na_ids' = {}
  /\ i' = 0
  /\ last_prune' = [last_prune EXCEPT !.fresh = FALSE]
  /\ pc' = "pop_loop"
  /\ UNCHANGED hostVars
  /\ UNCHANGED << now, dbFile, schema, nextId, txn, inTxn, history_json,
                  script, genVars, batch_size, num_records, expVars,
                  cutoff_time, trimVars, outcome, begin_store >>

\* populate_database: `for i in range(0, total_records, batch_size)` and
\* BEGIN TRANSACTION
PopLoop ==
  /\ pc = "pop_loop"
  /\ IF i < Len(metrics)
       THEN /\ inTxn' = TRUE
            /\ begin_store' = store
            /\ pc' = "pop_insert"
       ELSE /\ pc' = "exp_query"
            /\ UNCHANGED << inTxn, begin_store >>
  /\ UNCHANGED hostVars
  /\ UNCHANGED << now, dbFile, schema, store, nextId, txn, na_ids,
                  history_json, script, genVars, loopVars, expVars,
                  cutoff_time, trimVars, outcome, last_prune >>

\* the ids of the rows of `batch` (entries from..) that were "N/A" readings
NaIdsOf(first, from, n) ==
  { first + k - 1 : k \in { j \in 1..n : na_readings[from + j] } }

\* executemany(INSERT ..., batch) runs to its end
PopInsert ==
  /\ pc = "pop_insert"
  /\ LET batch == Slice(metrics, i, batch_size)
     IN /\ txn' = RowsOf(nextId, batch)
        /\ na_ids' = na_ids \cup NaIdsOf(nextId, i, Len(batch))
  /\ pc' = "pop_commit"
  /\ UNCHANGED hostVars
  /\ UNCHANGED << now, dbFile, schema, store, nextId, inTxn, history_json,
                  script, genVars, loopVars, expVars, cutoff_time, trimVars,
                  outcome, begin_store, last_prune >>

\* executemany raises after k rows of the batch, or the commit raises with
\* all of them inserted
PopInsertFail ==
  /\ pc = "pop_insert"
  /\ LET batch == Slice(metrics, i, batch_size)
     IN \E k \in 0..Len(batch) :
          /\ txn' = RowsOf(nextId, SubSeq(batch, 1, k))
          /\ na_ids' = na_ids \cup NaIdsOf(nextId, i, k)
  /\ outcome' = "batch_failed"
  /\ pc' = "close"
  /\ UNCHANGED hostVars
  /\ UNCHANGED << now, dbFile, schema, store, nextId, inTxn, history_json,
                  script, genVars, loopVars, expVars, cutoff_time, trimVars,
                  begin_store, last_prune >>

\* conn.commit() of the batch
PopCommit ==
  /\ pc = "pop_commit"
  /\ store' = Commit(store, txn)
  /\ nextId' = nextId + Cardinality(txn)
  /\ txn' = {}
  /\ inTxn' = FALSE
  /\ i' = i + batch_size
  /\ last_prune' = [last_prune EXCEPT !.fresh = FALSE]
  /\ pc' = "pop_loop"
  /\ UNCHANGED hostVars
  /\ UNCHANGED << now, dbFile, schema, na_ids, history_json, script, genVars,
                  batch_size, num_records, expVars, cutoff_time, trimVars,
                  outcome, begin_store >>

\* ------------------------------------------------- create_history_json
\* timedelta(hours=24, minutes=10) in db_load_test.py, history_days=3 and
\* ten minutes in db_load_3d_test.py
\* HorizonOf with no grace margin on the 3 days
HorizonOfNoMargin(sc) == IF sc = "load3d" THEN Span3d ELSE Horizon

HorizonOf(sc) == IF sc = "load3d" THEN Horizon3d ELSE Horizon

ExportPcs == {"exp_open", "exp_write"}

\* cutoff_time, the SELECT and the loop that fills result
ExpQuery ==
  /\ pc = "exp_query"
  /\ export_time' = now
  /\ cutoff_time' = CutoffOf(now, HorizonOf(script))
  /\ \E o \in Orderings(Window(store, cutoff_time')) :
       /\ order' = o
       /\ result' = BuildResult(store, o)
  /\ prev_file' = history_json
  /\ pc' = "exp_open"
  /\ UNCHANGED hostVars
  /\ UNCHANGED << now, dbFile, schema, dbVars, history_json, script, genVars,
                  loopVars, observed, trimVars, outcome, begin_store,
                  last_prune >>

\* the SELECT raises (database locked, I/O error)
ExpQueryFail ==
  /\ pc = "exp_query"
  /\ prev_file' = history_json
  /\ outcome' = "export_failed"
  /\ pc' = "close"
  /\ UNCHANGED hostVars
  /\ UNCHANGED << now, dbFile, schema, dbVars, history_json, script, genVars,
                  loopVars, export_time, result, order, observed, cutoff_time,
                  trimVars, begin_store, last_prune >>

\* open(output_path, 'w'): the file is created or truncated
ExpOpen ==
  /\ pc = "exp_open"
  /\ history_json' = <<>>
  /\ pc' = "exp_write"
  /\ UNCHANGED hostVars
  /\ UNCHANGED << now, dbFile, schema, dbVars, script, genVars, loopVars,
                  expVars, cutoff_time, trimVars, outcome, begin_store,
                  last_prune >>

\* makedirs or open raises: nothing was written
ExpOpenFail ==
  /\ pc = "exp_open"
  /\ outcome' = "export_failed"
  /\ pc' = "close"
  /\ UNCHANGED hostVars
  /\ UNCHANGED << now, dbFile, schema, dbVars, history_json, script, genVars,
                  loopVars, expVars, cutoff_time, trimVars, begin_store,
                  last_prune >>

\* json.dump(result, f, indent=4): the buffer is flushed to the file piece
\* by piece, the last piece when the with block closes the file
ExpWrite ==
  /\ pc = "exp_write"
  /\ LET text == Dump(result)
         upto == Min2(Len(text), Len(history_json) + FlushTokens)
     IN /\ history_json' = SubSeq(text, 1, upto)
        /\ IF upto = Len(text)
             THEN pc' = "close" /\ outcome' = "ok"
             ELSE pc' = "exp_write" /\ UNCHANGED outcome
  /\ UNCHANGED hostVars
  /\ UNCHANGED << now, dbFile, schema, dbVars, script, genVars, loopVars,
                  expVars, cutoff_time, trimVars, begin_store, last_prune >>

\* json.dump or a write raises: what was flushed stays in the file
ExpWriteFail ==
  /\ pc = "exp_write"
  /\ outcome' = "export_failed"
  /\ pc' = "close"
  /\ UNCHANGED hostVars
  /\ UNCHANGED << now, dbFile, schema, dbVars, history_json, script, genVars,
                  loopVars, expVars, cutoff_time, trimVars, begin_store,
                  last_prune >>

\* another process opens history.json and reads it while the export runs
Reader ==
  /\ pc \in ExportPcs
  /\ observed' = history_json
  /\ UNCHANGED hostVars
  /\ UNCHANGED << now, dbFile, schema, dbVars, history_json, pc, script,
                  genVars, loopVars, export_time, result, order, prev_file,
                  cutoff_time, trimVars, outcome, begin_store, last_prune >>

\* ------------------------------------------------ the end of every script
\* finally: conn.close(); an open transaction is rolled back
CloseAndExit ==
  /\ pc = "close"
  /\ store' = CloseConn(store, txn)
  /\ txn' = {}
  /\ inTxn' = FALSE
  /\ na_ids' = na_ids \cap { r.id : r \in store' }
  /\ pc' = "exited"
  /\ UNCHANGED hostVars
  /\ UNCHANGED << now, dbFile, schema, nextId, history_json, script, genVars,
                  loopVars, expVars, cutoff_time, trimVars, outcome,
                  begin_store, last_prune >>

\* the process is gone, and its locals with it
Exit ==
  /\ pc = "exited"
  /\ ResetLocals
  /\ begin_store' = {}
  /\ prev_file' = NoFile
  /\ script' = "none"
  /\ outcome' = "none"
  /\ pc' = "idle"
  /\ UNCHANGED hostVars
  /\ UNCHANGED << now, dbFile, schema, dbVars, history_json, last_prune >>

\* ------------------------------------------------- test_trimming.py: main
\* lines 128-135: without a database file the script returns 1
StartTrimNoDb ==
  /\ pc = "idle"
  /\ ~dbFile
  /\ script' = "trim"
  /\ outcome' = "no_database"
  /\ pc' = "exited"
  /\ UNCHANGED hostVars
  /\ UNCHANGED << now, dbFile, schema, dbVars, history_json, genVars,
                  loopVars, expVars, cutoff_time, trimVars, begin_store,
                  last_prune >>

\* lines 140-148 and add_old_records, lines 46-55: the records end two days
\* ago and span a week
StartTrim ==
  /\ pc = "idle"
  /\ dbFile /\ TableName \in schema
  /\ \E n \in 1..MaxOld :
       /\ nextId + n - 1 <= MaxId
       /\ num_records' = n
       /\ end_time' = OldEndTime(now)
       /\ current_time' = OldEndTime(now) - OldSpan * Res
       /\ interval' = (OldSpan * Res) \div n
  /\ i' = 0
  /\ metrics' = <<>>
  /\ na_readings' = <<>>
  /\ script' = "trim"
  /\ pc' = "old_loop"
  /\ UNCHANGED hostVars
  /\ UNCHANGED << now, dbFile, schema, dbVars, history_json, batch_size,
                  expVars, cutoff_time, trimVars, outcome, begin_store,
                  last_prune >>

\* one turn of `for i in range(num_records)`: build the record; when the
\* batch is full or this is the last record, BEGIN TRANSACTION
add_old_records ==
  /\ pc = "old_loop"
  /\ IF i < num_records
       THEN /\ metrics' = Append(metrics, MetricOld(current_time, i))
            /\ na_readings' = Append(na_readings, FALSE)
            /\ current_time' = current_time + interval
            /\ IF Len(metrics') >= OldBatch \/ i = num_records - 1
                 THEN /\ inTxn' = TRUE
                      /\ begin_store' = store
                      /\ pc' = "old_insert"
                      /\ i' = i
                 ELSE /\ i' = i + 1
                      /\ pc' = "old_loop"
                      /\ UNCHANGED << inTxn, begin_store >>
       ELSE /\ pc' = "trim_before"
            /\ UNCHANGED << metrics, na_readings, current_time, i, inTxn,
                            begin_store >>
  /\ UNCHANGED hostVars
  /\ UNCHANGED << now, dbFile, schema, store, nextId, txn, na_ids,
                  history_json, script, end_time, interval, batch_size,
                  num_records, expVars, cutoff_time, trimVars, outcome,
                  last_prune >>

\* executemany(INSERT ..., records) runs to its end
OldInsert ==
  /\ pc = "old_insert"
  /\ txn' = RowsOf(nextId, metrics)
  /\ pc' = "old_commit"
  /\ UNCHANGED hostVars
  /\ UNCHANGED << now, dbFile, schema, store, nextId, inTxn, na_ids,
                  history_json, script, genVars, loopVars, expVars,
                  cutoff_time, trimVars, outcome, begin_store, last_prune >>

\* executemany raises after k records, or the commit raises with all of
\* them inserted
OldInsertFail ==
  /\ pc = "old_insert"
  /\ \E k \in 0..Len(metrics) :
       txn' = RowsOf(nextId, SubSeq(metrics, 1, k))
  /\ outcome' = "batch_failed"
  /\ pc' = "close"
  /\ UNCHANGED hostVars
  /\ UNCHANGED << now, dbFile, schema, store, nextId, inTxn, na_ids,
                  history_json, script, genVars, loopVars, expVars,
                  cutoff_time, trimVars, begin_store, last_prune >>

\* conn.commit(); records = []
OldCommit ==
  /\ pc = "old_commit"
  /\ store' = Commit(store, txn)
  /\ nextId' = nextId + Cardinality(txn)
  /\ txn' = {}
  /\ inTxn' = FALSE
  /\ metrics' = <<>>
  /\ na_readings' = <<>>
  /\ i' = i + 1
  /\ last_prune' = [last_prune EXCEPT !.fresh = FALSE]
  /\ pc' = "old_loop"
  /\ UNCHANGED hostVars
  /\ UNCHANGED << now, dbFile, schema, na_ids, history_json, script,
                  current_time, end_time, interval, batch_size, num_records,
                  expVars, cutoff_time, trimVars, outcome, begin_store >>

\* ------------------------------------------------ perform_trim_operation
\* called on its own, on an open connection to an existing database
StartPrune ==
  /\ pc = "idle"
  /\ dbFile /\ TableName \in schema
  /\ script' = "prune"
  /\ pc' = "trim_before"
  /\ UNCHANGED hostVars
  /\ UNCHANGED << now, dbFile, schema, dbVars, history_json, genVars,
                  loopVars, expVars, cutoff_time, trimVars, outcome,
                  begin_store, last_prune >>

\* lines 96-99: cutoff_time and before_count
TrimBefore ==
  /\ pc = "trim_before"
  /\ cutoff_time' = CutoffOf(now, Horizon)
  /\ before_count' = count_records(store)
  /\ begin_store' = store
  /\ pc' = "trim_delete"
  /\ UNCHANGED hostVars
  /\ UNCHANGED << now, dbFile, schema, dbVars, history_json, script, genVars,
                  loopVars, expVars, after_count, deleted_count, outcome,
                  last_prune >>

\* lines 107-108: DELETE ... WHERE timestamp_epoch < cutoff_time; commit
TrimDelete ==
  /\ pc = "trim_delete"
  /\ store' = Prune(store, cutoff_time)
  /\ na_ids' = na_ids \cap { r.id : r \in store' }
  /\ last_prune' = [ cutoff |-> cutoff_time, fresh |-> TRUE,
                     repeat |-> last_prune.fresh
                                  /\ last_prune.cutoff = cutoff_time ]
  /\ pc' = "trim_vacuum"
  /\ UNCHANGED hostVars
  /\ UNCHANGED << now, dbFile, schema, nextId, txn, inTxn, history_json,
                  script, genVars, loopVars, expVars, cutoff_time, trimVars,
                  outcome, begin_store >>

\* the DELETE raises: nothing is deleted
TrimDeleteFail ==
  /\ pc = "trim_delete"
  /\ outcome' = "trim_failed"
  /\ pc' = "close"
  /\ UNCHANGED hostVars
  /\ UNCHANGED << now, dbFile, schema, dbVars, history_json, script, genVars,
                  loopVars, expVars, cutoff_time, trimVars, begin_store,
                  last_prune >>

\* lines 112-113: VACUUM; commit. The file is rewritten, the rows stay
TrimVacuum ==
  /\ pc = "trim_vacuum"
  /\ store' = Vacuum(store)
  /\ pc' = "trim_after"
  /\ UNCHANGED hostVars
  /\ UNCHANGED << now, dbFile, schema, nextId, txn, inTxn, na_ids,
                  history_json, script, genVars,
                  loopVars, expVars, cutoff_time, trimVars, outcome,
                  begin_store, last_prune >>

\* the VACUUM raises (disk full, database locked): the pruned rows stay
\* deleted
TrimVacuumFail ==
  /\ pc = "trim_vacuum"
  /\ outcome' = "vacuum_failed"
  /\ pc' = "close"
  /\ UNCHANGED hostVars
  /\ UNCHANGED << now, dbFile, schema, dbVars, history_json, script, genVars,
                  loopVars, expVars, cutoff_time, trimVars, begin_store,
                  last_prune >>

\* lines 118-119: after_count and deleted_count
TrimAfter ==
  /\ pc = "trim_after"
  /\ after_count' = count_records(store)
  /\ deleted_count' = DeletedCount(before_count, after_count')
  /\ outcome' = "ok"
  /\ pc' = "close"
  /\ UNCHANGED hostVars
  /\ UNCHANGED << now, dbFile, schema, dbVars, history_json, script, genVars,
                  loopVars, expVars, cutoff_time, before_count, begin_store,
                  last_prune >>

\* -------------------------------------------------------- specification
Next ==
  \/ Tick
  \/ StartLoad
  \/ StartLoad3d
  \/ create_db_schema
  \/ generate_metrics
  \/ PopClear
  \/ PopLoop
  \/ PopInsert
  \/ PopInsertFail
  \/ PopCommit
  \/ ExpQuery
  \/ ExpQueryFail
  \/ ExpOpen
  \/ ExpOpenFail
  \/ ExpWrite
  \/ ExpWriteFail
  \/ Reader
  \/ StartTrimNoDb
  \/ StartTrim
  \/ add_old_records
  \/ OldInsert
  \/ OldInsertFail
  \/ OldCommit
  \/ StartPrune
  \/ TrimBefore
  \/ TrimDelete
  \/ TrimDeleteFail
  \/ TrimVacuum
  \/ TrimVacuumFail
  \/ TrimAfter
  \/ CloseAndExit
  \/ Exit

Spec == Init /\ [][Next]_vars

\* ------------------------------------- the generators, in any zone
\* db_load_test.py and db_load_3d_test.py up to the end of generate_metrics,
\* on a host whose zone may have a transition inside the generated span
InitGen ==
  /\ zone \in Zones
  /\ Idle
  /\ NoProcess
  /\ CleanHost
  /\ NoLoop
  /\ NoTasks
  /\ NoServer

NextGen ==
  \/ Tick
  \/ StartLoad
  \/ StartLoad3d
  \/ create_db_schema
  \/ generate_metrics

SpecGen == InitGen /\ [][NextGen]_vars

\* ------------------------------------- the 3-day load test, taking time
\* db_load_3d_test.py alone, on a host where generating and inserting the
\* records may take as long as the grace margin of the export

\* the time generate_metrics and populate_database may take, in ticks
Stalls ==
  { (Margin3d - 1) * Res, Margin3d * Res - 1, Margin3d * Res,
    (Margin3d + 1) * Res }

\* the clock moves on while the records are generated and inserted
Stall ==
  /\ script = "load3d"
  /\ pc \in {"gen", "pop_loop"}
  /\ now <= Now0 + MaxTicks
  /\ \E d \in Stalls : now' = now + d
  /\ UNCHANGED hostVars
  /\ UNCHANGED << dbFile, schema, dbVars, history_json, pc, script, genVars,
                  loopVars, expVars, cutoff_time, trimVars, outcome,
                  begin_store, last_prune >>

Next3d ==
  \/ Tick
  \/ Stall
  \/ StartLoad3d
  \/ create_db_schema
  \/ generate_metrics
  \/ PopClear
  \/ PopLoop
  \/ PopInsert
  \/ PopInsertFail
  \/ PopCommit
  \/ ExpQuery
  \/ ExpQueryFail
  \/ ExpOpen
  \/ ExpOpenFail
  \/ ExpWrite
  \/ ExpWriteFail
  \/ Reader
  \/ CloseAndExit
  \/ Exit

Spec3d == Init /\ [][Next3d]_vars

\* ----------------------------------------------------- no_docker.py
\* the methods class GPUMonitorInstaller defines
Methods ==
  { "__init__", "setup_logging", "detect_environment", "check_nvidia_paths",
    "check_prerequisites", "check_and_install_dependencies",
    "setup_directories", "setup_virtual_environment",
    "modify_monitor_script", "create_systemd_service",
    "copy_application_files", "check_service_status", "start_service",
    "stop_service", "cleanup" }

\* main, --start: the methods chained with `and`, in this order
StartSteps ==
  << "check_prerequisites", "check_and_install_dependencies",
     "setup_directories", "setup_virtual_environment",
     "copy_application_files", "modify_monitor_script",
     "create_systemd_service", "start_service" >>

\* the methods main reaches, which a caller may also call on the object
Callable ==
  { StartSteps[k] : k \in 1..Len(StartSteps) }
    \cup { "stop_service", "cleanup", "check_service_status" }

\* the command line options of main; "none" is a command line without one
Options == { "start", "stop", "uninstall", "status", "none" }

\* main, lines 709-717: the method each of the other options calls
Dispatch(opt) ==
  CASE opt = "start"     -> StartSteps[1]
    [] opt = "stop"      -> "stop_service"
    [] opt = "uninstall" -> "cleanup"
    [] opt = "status"    -> "check_service_status"

\* str(b) of a bool
Str(b) == IF b THEN "True" ELSE "False"

\* a method returns r (or raises, r = "raise") having met the host facts e
Return(r, e) ==
  /\ ret' = r
  /\ env' = e
  /\ ipc' = "return"

\* a method called on an installer object directly, as a test does
Call ==
  /\ ipc = "idle"
  /\ \E m \in Callable : method' = m
  /\ cmd' = "call"
  /\ ipc' = "run"
  /\ UNCHANGED << scriptVars, envVars, monVars >>
  /\ UNCHANGED << ret, env, ran, printed, exit_status,
                  polls, slept, systemctl, nvidia_smi_path, fsVars, unitVars >>

\* the direct call is over and the object is dropped
CallReturn ==
  /\ ipc = "return"
  /\ cmd = "call"
  /\ ipc' = "idle"
  /\ cmd' = "none"
  /\ method' = "none"
  /\ ret' = "none"
  /\ env' = NoEnv
  /\ polls' = 0
  /\ slept' = 0
  /\ systemctl' = <<>>
  /\ nvidia_smi_path' = FALSE
  /\ UNCHANGED << scriptVars, envVars, monVars >>
  /\ UNCHANGED << ran, printed, exit_status, fsVars,
                  unitVars >>

\* main up to the first method call: parse_args, GPUMonitorInstaller()
\* (which exits with status 1 unless the effective user is root), then the
\* branch of the option; no option prints the help and exits with status 1
main ==
  /\ ipc = "idle"
  /\ \E opt \in Options, root \in BOOLEAN :
       /\ cmd' = opt
       /\ IF ~root
            THEN /\ method' = "__init__"
                 /\ exit_status' = << 1 >>
                 /\ ipc' = "exited"
                 /\ printed' = {}
            ELSE IF opt = "none"
              THEN /\ method' = "none"
                   /\ exit_status' = << 1 >>
                   /\ ipc' = "exited"
                   /\ printed' = {"help"}
              ELSE /\ method' = Dispatch(opt)
                   /\ exit_status' = <<>>
                   /\ ipc' = "run"
                   /\ printed' = IF opt = "start" THEN {"starting"} ELSE {}
  /\ UNCHANGED << scriptVars, envVars, monVars >>
  /\ UNCHANGED << ret, env, ran, polls, slept, systemctl,
                  nvidia_smi_path, fsVars, unitVars >>

\* main after a method came back: an exception is not caught anywhere, so
\* the interpreter prints the traceback and exits with status 1; --start
\* goes on to the next method of the chain after True, prints the success
\* lines after the last one, and prints the failure line and exits with
\* status 1 after False; the other options ignore the result
MainReturn ==
  /\ ipc = "return"
  /\ cmd \in Options
  /\ ran' = Append(ran, [step |-> method, ret |-> ret])
  /\ IF ret = "raise"
       THEN /\ printed' = printed \cup {"traceback"}
            /\ exit_status' = << 1 >>
            /\ ipc' = "exited"
            /\ UNCHANGED << method, ret, env >>
       ELSE IF cmd = "start" /\ ret = "True"
                 /\ Len(ran) + 1 < Len(StartSteps)
         THEN /\ method' = StartSteps[Len(ran) + 2]
              /\ ipc' = "run"
              /\ ret' = "none"
              /\ env' = NoEnv
              /\ UNCHANGED << printed, exit_status >>
         ELSE /\ printed' =
                   IF cmd # "start" THEN printed
                   ELSE IF ret = "True" THEN printed \cup {"success"}
                   ELSE printed \cup {"failure"}
              /\ exit_status' =
                   IF cmd = "start" /\ ret = "False" THEN << 1 >> ELSE << 0 >>
              /\ ipc' = "exited"
              /\ UNCHANGED << method, ret, env >>
  /\ polls' = 0
  /\ slept' = 0
  /\ systemctl' = <<>>
  /\ UNCHANGED << scriptVars, envVars, monVars >>
  /\ UNCHANGED << cmd, nvidia_smi_path, fsVars, unitVars >>

\* the installer process is gone
ProcessExit ==
  /\ ipc = "exited"
  /\ ipc' = "idle"
  /\ cmd' = "none"
  /\ method' = "none"
  /\ ret' = "none"
  /\ env' = NoEnv
  /\ ran' = <<>>
  /\ printed' = {}
  /\ exit_status' = <<>>
  /\ polls' = 0
  /\ slept' = 0
  /\ systemctl' = <<>>
  /\ nvidia_smi_path' = FALSE
  /\ UNCHANGED << scriptVars, envVars, monVars >>
  /\ UNCHANGED << fsVars, unitVars >>

\* what the host may answer check_prerequisites: every required command is
\* found by `which`, the interpreter is 3.8 or newer, /run/systemd/system
\* exists, and nvidia-smi runs from PATH ("path"), or from one of the
\* known places only ("found"), or from nowhere ("none")
PrereqEnvs ==
  [ which : BOOLEAN, python : BOOLEAN, systemd : BOOLEAN,
    smi : {"path", "found", "none"} ]

\* check_prerequisites: its first statement calls self.ensure_path(), which
\* the class does not define, outside the try block: AttributeError
PrereqResult(e) ==
  IF "ensure_path" \notin Methods THEN "raise"
  ELSE IF ~e.which THEN "False"
  ELSE IF ~e.python THEN "False"
  ELSE IF ~e.systemd THEN "False"
  ELSE Str(e.smi # "none")

check_prerequisites ==
  /\ ipc = "run"
  /\ method = "check_prerequisites"
  /\ \E e \in PrereqEnvs :
       /\ Return(PrereqResult(e), e)
       /\ nvidia_smi_path' = (nvidia_smi_path \/ PrereqResult(e) = "True")
  /\ UNCHANGED << scriptVars, envVars, monVars >>
  /\ UNCHANGED << cmd, method, ran, printed, exit_status,
                  polls, slept, systemctl, fsVars, unitVars >>

\* Python values, as far as line 271 needs them
PyNone == [type |-> "NoneType", items |-> <<>>]
PyList(items) == [type |-> "list", items |-> items]
TypeError == [type |-> "TypeError", items |-> <<>>]

\* l.extend(more): the list grows in place and the call returns None
Extend(l, more) == PyNone

\* a + b with a list on the left
Add(a, b) == IF b.type = "list" THEN PyList(a.items \o b.items) ELSE TypeError

\* self.required_packages, as __init__ sets it
required_packages ==
  PyList(<< "coreutils", "util-linux", "procps", "python3-venv" >>)

\* line 271: ['apt-get', 'install', '-y'] + self.required_packages.extend(..)
InstallCmd ==
  Add(PyList(<< "apt-get", "install", "-y" >>),
      Extend(required_packages,
             PyList(<< "coreutils", "util-linux", "procps",
                       "build-essential" >>)))

\* what the host may answer check_and_install_dependencies: apt-get is
\* there, `apt-get update` succeeds, the install command exits with
\* status 0, every required command is found afterwards
DepEnvs ==
  [ apt : BOOLEAN, update : BOOLEAN, install : BOOLEAN, which : BOOLEAN ]

\* check_and_install_dependencies: every exception ends in `return False`
DepResult(e) ==
  IF ~e.apt THEN "False"
  ELSE IF ~e.update THEN "False"
  ELSE IF InstallCmd.type = "TypeError" THEN "False"
  ELSE IF ~e.install THEN "False"
  ELSE Str(e.which)

check_and_install_dependencies ==
  /\ ipc = "run"
  /\ method = "check_and_install_dependencies"
  /\ \E e \in DepEnvs : Return(DepResult(e), e)
  /\ UNCHANGED << scriptVars, envVars, monVars >>
  /\ UNCHANGED << cmd, method, ran, printed, exit_status,
                  polls, slept, systemctl, nvidia_smi_path, fsVars, unitVars >>

\* setup_directories: mkdir of the three directories, then chown; an
\* exception at either ends in `return False`
setup_directories ==
  /\ ipc = "run"
  /\ method = "setup_directories"
  /\ \E fail \in {"none", "mkdir", "chown"} :
       /\ app_dir' = IF fail = "mkdir" THEN app_dir ELSE TRUE
       /\ Return(Str(fail = "none"), [fail |-> fail])
  /\ UNCHANGED << scriptVars, envVars, monVars >>
  /\ UNCHANGED << cmd, method, ran, printed, exit_status,
                  polls, slept, systemctl, nvidia_smi_path, service_file,
                  script_file, log_files, stats_file, unitVars >>

\* setup_virtual_environment: venv.create (which makes the directories
\* above venv), then two pip runs with check=True
setup_virtual_environment ==
  /\ ipc = "run"
  /\ method = "setup_virtual_environment"
  /\ \E fail \in {"none", "venv", "pip"} :
       /\ app_dir' = IF fail = "venv" THEN app_dir ELSE TRUE
       /\ Return(Str(fail = "none"), [fail |-> fail])
  /\ UNCHANGED << scriptVars, envVars, monVars >>
  /\ UNCHANGED << cmd, method, ran, printed, exit_status,
                  polls, slept, systemctl, nvidia_smi_path, service_file,
                  script_file, log_files, stats_file, unitVars >>

\* the files copy_application_files copies, in this order
FilesToCopy == << "server.py", "monitor_gpu.sh", "gpu-stats.html" >>

\* copy_application_files: a missing source file ends the loop with False,
\* copy2 into a missing /opt/gpu-monitor raises, the chmod walk may raise
copy_application_files ==
  /\ ipc = "run"
  /\ method = "copy_application_files"
  /\ \E missing \in {0} \cup (1..Len(FilesToCopy)), fail \in BOOLEAN :
       LET copied == IF ~app_dir THEN 0
                     ELSE IF missing = 0 THEN Len(FilesToCopy)
                     ELSE missing - 1
       IN  /\ script_file' = (script_file \/ copied >= 2)
           /\ Return(Str(app_dir /\ missing = 0 /\ ~fail),
                     [missing |-> missing, fail |-> fail])
  /\ UNCHANGED << scriptVars, envVars, monVars >>
  /\ UNCHANGED << cmd, method, ran, printed, exit_status,
                  polls, slept, systemctl, nvidia_smi_path, service_file,
                  app_dir, log_files, stats_file, unitVars >>

\* modify_monitor_script: needs the script and self.nvidia_smi_path
modify_monitor_script ==
  /\ ipc = "run"
  /\ method = "modify_monitor_script"
  /\ \E fail \in BOOLEAN :
       Return(Str(script_file /\ nvidia_smi_path /\ ~fail), [fail |-> fail])
  /\ UNCHANGED << scriptVars, envVars, monVars >>
  /\ UNCHANGED << cmd, method, ran, printed, exit_status,
                  polls, slept, systemctl, nvidia_smi_path, fsVars, unitVars >>

\* create_systemd_service: write the unit file, daemon-reload, enable
create_systemd_service ==
  /\ ipc = "run"
  /\ method = "create_systemd_service"
  /\ \E fail \in {"none", "write", "reload", "enable"} :
       /\ service_file' = IF fail = "write" THEN service_file ELSE TRUE
       /\ systemctl' = CASE fail = "write"  -> <<>>
                         [] fail = "reload" -> << "daemon-reload" >>
                         [] OTHER           -> << "daemon-reload", "enable" >>
       /\ Return(Str(fail = "none"), [fail |-> fail])
  /\ UNCHANGED << scriptVars, envVars, monVars >>
  /\ UNCHANGED << cmd, method, ran, printed, exit_status,
                  polls, slept, nvidia_smi_path, app_dir, script_file,
                  log_files, stats_file, unitVars >>

\* how a run of monitor_gpu.sh may go: it exits with status 0, it exits
\* with another status, it cannot be executed, or it is the sampling loop,
\* which does not exit
ScriptRuns == {"exit0", "exit_err", "oserror", "loop"}

\* start_service: subprocess.run([script_path], check=True) runs the script
\* in the foreground and waits for it to exit
start_service ==
  /\ ipc = "run"
  /\ method = "start_service"
  /\ \E run \in ScriptRuns :
       IF ~script_file
         THEN /\ Return("False", [run |-> "missing"])
              /\ UNCHANGED monitor
         ELSE IF run = "loop"
           THEN /\ ipc' = "wait"
                /\ env' = [run |-> run]
                /\ monitor' = "running"
                /\ UNCHANGED ret
           ELSE /\ Return(Str(run = "exit0"), [run |-> run])
                /\ monitor' = IF run = "oserror" THEN monitor ELSE "exited"
  /\ UNCHANGED << scriptVars, envVars, monVars >>
  /\ UNCHANGED << cmd, method, ran, printed, exit_status,
                  polls, slept, systemctl, nvidia_smi_path, fsVars, service >>

\* subprocess.run returns once the script has exited: a signal from outside
\* ends the loop, with status 0 if the script handles it so
StartServiceWait ==
  /\ ipc = "wait"
  /\ method = "start_service"
  /\ \E rc0 \in BOOLEAN : Return(Str(rc0), [run |-> "signal"])
  /\ monitor' = "exited"
  /\ UNCHANGED << scriptVars, envVars, monVars >>
  /\ UNCHANGED << cmd, method, ran, printed, exit_status,
                  polls, slept, systemctl, nvidia_smi_path, fsVars, service >>

\* stop_service: systemctl stop gpu-monitor, check=True
stop_service ==
  /\ ipc = "run"
  /\ method = "stop_service"
  /\ \E ok \in BOOLEAN :
       /\ service' = IF ok THEN "inactive" ELSE service
       /\ Return(Str(ok), [ok |-> ok])
  /\ systemctl' = << "stop" >>
  /\ UNCHANGED << scriptVars, envVars, monVars >>
  /\ UNCHANGED << cmd, method, ran, printed, exit_status,
                  polls, slept, nvidia_smi_path, fsVars, monitor >>

\* the two log files the unit appends to and cleanup removes
LogNames == { "service.log", "error.log" }

\* where cleanup may meet an exception
CleanupFails ==
  { "none", "stop", "disable", "unlink", "reload", "rmtree", "remove" }

\* cleanup whose systemctl calls run without check=True: a command that
\* fails is passed over and the removal goes on
CleanupIgnoresSystemctl(h, fail) ==
  LET unitFailed == h.service_file /\ fail = "unlink"
      dirFailed == ~unitFailed /\ h.app_dir /\ fail = "rmtree"
      logFailed == ~unitFailed /\ ~dirFailed /\ h.logs # {}
                      /\ fail = "remove"
  IN  [ ret          |-> ~(unitFailed \/ dirFailed \/ logFailed),
        service_file |-> h.service_file /\ fail = "unlink",
        service      |-> IF h.service_file /\ fail # "stop"
                           THEN "inactive" ELSE h.service,
        app_dir      |-> h.app_dir /\ (unitFailed \/ dirFailed),
        logs         |-> IF unitFailed \/ dirFailed \/ logFailed
                           THEN h.logs ELSE {},
        calls        |-> IF ~h.service_file THEN <<>>
                         ELSE IF fail = "unlink" THEN << "stop", "disable" >>
                         ELSE << "stop", "disable", "daemon-reload" >> ]

\* cleanup that leaves the log files where they are
CleanupKeepsLogs(h, fail) ==
  LET unitFailed == h.service_file
                      /\ fail \in {"stop", "disable", "unlink", "reload"}
      dirFailed == ~unitFailed /\ h.app_dir /\ fail = "rmtree"
  IN  [ ret          |-> ~(unitFailed \/ dirFailed),
        service_file |-> h.service_file
                           /\ fail \in {"stop", "disable", "unlink"},
        service      |-> IF h.service_file /\ fail # "stop"
                           THEN "inactive" ELSE h.service,
        app_dir      |-> h.app_dir /\ (unitFailed \/ dirFailed),
        logs         |-> h.logs,
        calls        |-> IF ~h.service_file THEN <<>>
                         ELSE IF fail = "stop" THEN << "stop" >>
                         ELSE IF fail \in {"disable", "unlink"}
                           THEN << "stop", "disable" >>
                         ELSE << "stop", "disable", "daemon-reload" >> ]

\* cleanup, lines 648-674, on a host h with the exception (if any) at
\* `fail`: only if the unit file exists, systemctl stop, systemctl disable,
\* unlink, systemctl daemon-reload; then rmtree of /opt/gpu-monitor if it
\* exists; then os.remove of each log file that exists; any exception ends
\* in `return False` with the later steps not done
Cleanup(h, fail) ==
  LET unitFailed == h.service_file
                      /\ fail \in {"stop", "disable", "unlink", "reload"}
      dirFailed == ~unitFailed /\ h.app_dir /\ fail = "rmtree"
      logFailed == ~unitFailed /\ ~dirFailed /\ h.logs # {}
                      /\ fail = "remove"
  IN  [ ret          |-> ~(unitFailed \/ dirFailed \/ logFailed),
        service_file |-> h.service_file
                           /\ fail \in {"stop", "disable", "unlink"},
        service      |-> IF h.service_file /\ fail # "stop"
                           THEN "inactive" ELSE h.service,
        app_dir      |-> h.app_dir /\ (unitFailed \/ dirFailed),
        logs         |-> IF unitFailed \/ dirFailed \/ logFailed
                           THEN h.logs ELSE {},
        calls        |-> IF ~h.service_file THEN <<>>
                         ELSE IF fail = "stop" THEN << "stop" >>
                         ELSE IF fail \in {"disable", "unlink"}
                           THEN << "stop", "disable" >>
                         ELSE << "stop", "disable", "daemon-reload" >> ]

cleanup ==
  /\ ipc = "run"
  /\ method = "cleanup"
  /\ \E fail \in CleanupFails :
       LET h == [ service_file |-> service_file, app_dir |-> app_dir,
                  logs |-> log_files, service |-> service ]
           c == Cleanup(h, fail)
       IN  /\ service_file' = c.service_file
           /\ service' = c.service
           /\ app_dir' = c.app_dir
           /\ script_file' = (script_file /\ c.app_dir)
           /\ stats_file' = IF c.app_dir THEN stats_file ELSE "absent"
           /\ log_files' = c.logs
           /\ systemctl' = c.calls
           /\ Return(Str(c.ret),
                     [ fail |-> fail,
                       clean |-> ~service_file /\ ~app_dir /\ log_files = {} ])
  /\ UNCHANGED << scriptVars, envVars, monVars >>
  /\ UNCHANGED << cmd, method, ran, printed, exit_status,
                  polls, slept, nvidia_smi_path, monitor >>

MaxPolls == 6             \* for _ in range(6)
PollSleep == 5            \* time.sleep(5), seconds

\* a poll that takes any file for data
StatusPollAnyFile(file, err) == IF file # "absent" THEN "true" ELSE "sleep"

\* one turn of the loop of check_service_status: the file exists and
\* json.load reads it: return True; it is absent or not JSON: sleep; any
\* other exception on reading it leaves through the outer except: False
StatusPoll(file, err) ==
  IF file = "absent" THEN "sleep"
  ELSE IF err THEN "false"
  ELSE IF file = "valid" THEN "true"
  ELSE "sleep"

\* check_service_status up to the loop: systemctl status gpu-monitor.service
\* and the test for 'active (running)' in its output
check_service_status ==
  /\ ipc = "run"
  /\ method = "check_service_status"
  /\ \E err \in BOOLEAN :
       LET e == [ active |-> service = "running" /\ ~err, file |-> "unread" ]
       IN  IF e.active
             THEN /\ ipc' = "poll"
                  /\ env' = e
                  /\ UNCHANGED ret
             ELSE Return("False", e)
  /\ systemctl' = << "status" >>
  /\ polls' = 0
  /\ slept' = 0
  /\ UNCHANGED << scriptVars, envVars, monVars >>
  /\ UNCHANGED << cmd, method, ran, printed, exit_status,
                  nvidia_smi_path, fsVars, unitVars >>

\* check_service_status, the loop and what follows it
StatusLoop ==
  /\ ipc = "poll"
  /\ method = "check_service_status"
  /\ IF polls < MaxPolls
       THEN \E err \in BOOLEAN :
              LET e == [env EXCEPT !.file = stats_file]
              IN  CASE StatusPoll(stats_file, err) = "true" ->
                         /\ Return("True", e)
                         /\ UNCHANGED << polls, slept >>
                    [] StatusPoll(stats_file, err) = "false" ->
                         /\ Return("False", e)
                         /\ UNCHANGED << polls, slept >>
                    [] OTHER ->
                         /\ polls' = polls + 1
                         /\ slept' = slept + PollSleep
                         /\ env' = e
                         /\ UNCHANGED << ipc, ret >>
       ELSE /\ Return("False", env)
            /\ UNCHANGED << polls, slept >>
  /\ UNCHANGED << scriptVars, envVars, monVars >>
  /\ UNCHANGED << cmd, method, ran, printed, exit_status,
                  systemctl, nvidia_smi_path, fsVars, unitVars >>

\* systemd and the unit create_systemd_service wrote: it is started (at
\* boot, the unit is enabled) with its output appended to the two log
\* files, or it stops
Systemd ==
  /\ service_file
  /\ IF service = "inactive"
       THEN /\ script_file
            /\ service' = "running"
            /\ log_files' = LogNames
       ELSE /\ service' = "inactive"
            /\ UNCHANGED log_files
  /\ UNCHANGED << scriptVars, envVars, monVars >>
  /\ UNCHANGED << procVars, service_file, app_dir,
                  script_file, stats_file, monitor >>

\* the running monitor rewrites gpu_current_stats.json every tick; a reader
\* may find it half-written
MonitorWrites ==
  /\ app_dir
  /\ service = "running" \/ monitor = "running"
  /\ \E f \in {"invalid", "valid"} :
       /\ f # stats_file
       /\ stats_file' = f
  /\ UNCHANGED << scriptVars, envVars, monVars >>
  /\ UNCHANGED << procVars, service_file, app_dir,
                  script_file, log_files, unitVars >>

InitInstall ==
  /\ zone = FixedZone
  /\ Idle
  /\ NoProcess
  /\ CleanHost
  /\ NoLoop
  /\ NoTasks
  /\ NoServer

NextInstall ==
  \/ main
  \/ MainReturn
  \/ ProcessExit
  \/ Call
  \/ CallReturn
  \/ check_prerequisites
  \/ check_and_install_dependencies
  \/ setup_directories
  \/ setup_virtual_environment
  \/ copy_application_files
  \/ modify_monitor_script
  \/ create_systemd_service
  \/ start_service
  \/ StartServiceWait
  \/ stop_service
  \/ cleanup
  \/ check_service_status
  \/ StatusLoop
  \/ Systemd
  \/ MonitorWrites

SpecInstall == InitInstall /\ [][NextInstall]_vars

\* ------------------------------------------------- the sampling loop
\* The loop of the monitor: Idle -> Acquiring -> Sanitizing -> Storing ->
\* (periodically) Compacting -> Exporting -> Idle, one tick after the other
\* on one thread of control. What a step does to the store and to the
\* document is what the operators above do.

\* the configured interval between ticks, in clock ticks
LoopIntervals == { 4 * Res, Horizon * Res }

\* the steps of a tick, in their fixed order
TickOrder == << "acquire", "sanitize", "store", "compact", "export" >>
Rank(step) == CHOOSE k \in 1..Len(TickOrder) : TickOrder[k] = step

\* a loop that exports a tick before it stores its sample
NextStateExportFirst(st, due) ==
  CASE st = "Idle"       -> "Acquiring"
    [] st = "Acquiring"  -> "Sanitizing"
    [] st = "Sanitizing" -> "Exporting"
    [] st = "Exporting"  -> "Storing"
    [] st = "Storing"    -> IF due THEN "Compacting" ELSE "Idle"
    [] st = "Compacting" -> "Idle"

\* the state that follows st when the step of st is done; `due`: the
\* compactor is scheduled for this tick
NextState(st, due) ==
  CASE st = "Idle"       -> "Acquiring"
    [] st = "Acquiring"  -> "Sanitizing"
    [] st = "Sanitizing" -> "Storing"
    [] st = "Storing"    -> IF due THEN "Compacting" ELSE "Exporting"
    [] st = "Compacting" -> "Exporting"
    [] st = "Exporting"  -> "Idle"

\* a loop that gives up at the first failure
OnFailureHalts(st, due) == "Stopped"

\* the state that follows st when the step of st failed: the failure is
\* logged and the tick is over, except that a failed compaction is left to
\* the next compaction cycle and the tick goes on
OnFailure(st, due) ==
  IF st = "Compacting" THEN NextState(st, due) ELSE "Idle"

CompactDue == ticks % CompactEvery = 0

\* start-up: an unresolvable configuration (the GPU tool path) is fatal
LoopStart ==
  /\ loop = "Starting"
  /\ \E ok \in BOOLEAN, iv \in LoopIntervals :
       IF ok
         THEN /\ loop' = "Idle"
              /\ interval' = iv
              /\ UNCHANGED stopped_by
         ELSE /\ loop' = "Stopped"
              /\ stopped_by' = "config"
              /\ UNCHANGED interval
  /\ UNCHANGED << envVars, procVars, fsVars, unitVars, ticks, steps, reading,
                  sample, failure, shutdown >>
  /\ UNCHANGED << now, dbFile, schema, dbVars, history_json, pc, script,
                  current_time, end_time, metrics, na_readings, loopVars,
                  expVars, cutoff_time, trimVars, outcome, begin_store,
                  last_prune >>

\* a shutdown signal arrives
Signal ==
  /\ loop \notin {"Starting", "Stopped"}
  /\ ~shutdown
  /\ shutdown' = TRUE
  /\ UNCHANGED << scriptVars, envVars, procVars, fsVars, unitVars, loop, ticks,
                  steps, reading, sample, failure, stopped_by >>

\* the signal is honoured at the tick boundary
LoopStop ==
  /\ loop = "Idle"
  /\ shutdown
  /\ loop' = "Stopped"
  /\ stopped_by' = "shutdown"
  /\ UNCHANGED << scriptVars, envVars, procVars, fsVars, unitVars, ticks, steps,
                  reading, sample, failure, shutdown >>

\* the configured interval has passed: the next tick begins
BeginTick ==
  /\ loop = "Idle"
  /\ ~shutdown
  /\ ticks < MaxLoopTicks
  /\ ticks' = ticks + 1
  /\ now' = now + interval
  /\ steps' = <<>>
  /\ reading' = NoReading
  /\ sample' = NoSample
  /\ failure' = "none"
  /\ loop' = NextState(loop, CompactDue)
  /\ UNCHANGED << envVars, procVars, fsVars, unitVars, shutdown, stopped_by >>
  /\ UNCHANGED << dbFile, schema, dbVars, history_json, pc, script, genVars,
                  loopVars, expVars, cutoff_time, trimVars, outcome,
                  begin_store, last_prune >>

\* acquire() -> RawReading | AcquisitionError
Acquire ==
  /\ loop = "Acquiring"
  /\ \/ \E raw \in RawReadings, na \in BOOLEAN :
          /\ reading' = [raw |-> raw, na |-> na]
          /\ steps' = Append(steps, "acquire")
          /\ loop' = NextState(loop, CompactDue)
          /\ UNCHANGED failure
     \/ /\ failure' = "AcquisitionError"
        /\ loop' = OnFailure(loop, CompactDue)
        /\ UNCHANGED << reading, steps >>
  /\ UNCHANGED << scriptVars, envVars, procVars, fsVars, unitVars, ticks, sample,
                  shutdown, stopped_by >>

\* sanitize(RawReading) -> MetricSample: total, never fails
Sanitize ==
  /\ loop = "Sanitizing"
  /\ sample' = Metric3d(now, reading.raw, reading.na)
  /\ steps' = Append(steps, "sanitize")
  /\ loop' = NextState(loop, CompactDue)
  /\ UNCHANGED << scriptVars, envVars, procVars, fsVars, unitVars, ticks,
                  reading, failure, shutdown, stopped_by >>

\* append the sample and commit, or StoreWriteError
Store ==
  /\ loop = "Storing"
  /\ \/ /\ store' = Commit(store, {RowOf(nextId, sample)})
        /\ nextId' = nextId + 1
        /\ steps' = Append(steps, "store")
        /\ loop' = NextState(loop, CompactDue)
        /\ UNCHANGED failure
     \/ /\ failure' = "StoreWriteError"
        /\ loop' = OnFailure(loop, CompactDue)
        /\ UNCHANGED << store, nextId, steps >>
  /\ UNCHANGED << envVars, procVars, fsVars, unitVars, ticks, reading, sample,
                  shutdown, stopped_by >>
  /\ UNCHANGED << now, dbFile, schema, txn, inTxn, na_ids, history_json, pc,
                  script, genVars, loopVars, expVars, cutoff_time, trimVars,
                  outcome, begin_store, last_prune >>

\* prune(now - horizon) and reclaim, or CompactionError
Compact ==
  /\ loop = "Compacting"
  /\ \/ /\ store' = Prune(store, CutoffOf(now, Horizon))
        /\ steps' = Append(steps, "compact")
        /\ loop' = NextState(loop, CompactDue)
        /\ UNCHANGED failure
     \/ /\ failure' = "CompactionError"
        /\ loop' = OnFailure(loop, CompactDue)
        /\ UNCHANGED << store, steps >>
  /\ UNCHANGED << envVars, procVars, fsVars, unitVars, ticks, reading, sample,
                  shutdown, stopped_by >>
  /\ UNCHANGED << now, dbFile, schema, nextId, txn, inTxn, na_ids,
                  history_json, pc, script, genVars, loopVars, expVars,
                  cutoff_time, trimVars, outcome, begin_store, last_prune >>

\* export(now): the window of the store becomes the new document, which
\* replaces the previous one, or ExportError and the previous one stays
Export ==
  /\ loop = "Exporting"
  /\ \/ /\ export_time' = now
        /\ cutoff_time' = CutoffOf(now, Horizon)
        /\ \E o \in Orderings(Window(store, cutoff_time')) :
             /\ order' = o
             /\ result' = BuildResult(store, o)
        /\ history_json' = Dump(result')
        /\ steps' = Append(steps, "export")
        /\ loop' = NextState(loop, CompactDue)
        /\ UNCHANGED failure
     \/ /\ failure' = "ExportError"
        /\ loop' = OnFailure(loop, CompactDue)
        /\ UNCHANGED << export_time, cutoff_time, order, result,
                        history_json, steps >>
  /\ UNCHANGED << envVars, procVars, fsVars, unitVars, ticks, reading, sample,
                  shutdown, stopped_by >>
  /\ UNCHANGED << now, dbFile, schema, dbVars, pc, script, genVars, loopVars,
                  prev_file, observed, trimVars, outcome, begin_store,
                  last_prune >>

InitLoop ==
  /\ zone = FixedZone
  /\ Idle
  /\ NoProcess
  /\ CleanHost
  /\ NoLoop
  /\ NoTasks
  /\ NoServer

NextLoop ==
  \/ LoopStart
  \/ Signal
  \/ LoopStop
  \/ BeginTick
  \/ Acquire
  \/ Sanitize
  \/ Store
  \/ Compact
  \/ Export

SpecLoop == InitLoop /\ [][NextLoop]_vars
\* ------------------------------------------- the store under two writers
\* The sampling tick and the retention compactor are two tasks with a
\* connection each to the one database file; the export reads through a
\* third. A transaction's changes stay with its connection until the
\* commit, which puts them into the file in one step.

MaxSeed == 2          \* rows in the file before the tasks start
MaxBatch == 2         \* samples one insert transaction may carry
MaxTxId == 4          \* the tasks stop inserting past this id

\* what the tasks and the reader leave alone
txFrame == << scriptVars, zone, webVars, procVars, fsVars, unitVars, monVars >>

\* the rows the file holds before the tasks start: older than any cutoff
SeedMetrics(n) ==
  [ k \in 1..n |-> MetricOld(Now0 - OldEnd * Res - (n - k + 1) * Res, k - 1) ]

\* MayBegin with no lock on the file
MayBeginAnyTime(holder) == TRUE

\* a write transaction begins only while no other task holds the write
\* lock of the file
MayBegin(holder) == holder = "none"

\* Read that also sees the uncommitted changes of the open transactions
ReadUncommitted(rows, pend) ==
  { r \in rows : \A t \in Tasks : r.id \notin pend[t].del }
    \cup UNION { pend[t].ins : t \in Tasks }

\* a read on another connection sees the rows of the file: committed
\* changes only
Read(rows, pend) == rows

\* the commit of a transaction: its deletes and inserts at once
Apply(rows, p) == { r \in rows : r.id \notin p.del } \cup p.ins

\* the rows a DELETE ... WHERE timestamp_epoch < cutoff has to remove
Doomed(rows, cutoff) == rows \ Prune(rows, cutoff)

\* the tick opens its insert transaction for a batch of n samples
TickBegin ==
  /\ tx["tick"] \in {"idle", "skipped"}
  /\ MayBegin(lock)
  /\ \E n \in 1..MaxBatch :
       /\ db_next + n - 1 <= MaxTxId
       /\ pending' = [pending EXCEPT !["tick"] =
                        [ins |-> {}, del |-> {}, left |-> n]]
  /\ lock' = "tick"
  /\ tx' = [tx EXCEPT !["tick"] = "insert"]
  /\ UNCHANGED << committed, db_next, prune_cutoff, view, snapshots >>
  /\ UNCHANGED txFrame

\* one INSERT of the batch
TickInsert ==
  /\ tx["tick"] = "insert"
  /\ pending["tick"].left > 0
  /\ \E raw \in RawReadings :
       pending' = [pending EXCEPT !["tick"] =
         [ins  |-> @.ins \cup
                     { RowOf(db_next + Cardinality(@.ins),
                             MetricLoad(now, raw)) },
          del  |-> @.del,
          left |-> @.left - 1]]
  /\ UNCHANGED << committed, db_next, lock, tx, prune_cutoff, view,
                  snapshots >>
  /\ UNCHANGED txFrame

\* the commit of the batch
TickCommit ==
  /\ tx["tick"] = "insert"
  /\ pending["tick"].left = 0
  /\ committed' = Apply(committed, pending["tick"])
  /\ db_next' = db_next + Cardinality(pending["tick"].ins)
  /\ snapshots' = snapshots \cup {committed'}
  /\ pending' = [pending EXCEPT !["tick"] = NoPending]
  /\ lock' = "none"
  /\ tx' = [tx EXCEPT !["tick"] = "idle"]
  /\ UNCHANGED << prune_cutoff, view >>
  /\ UNCHANGED txFrame

\* StoreWriteError inside the transaction: it is rolled back and the tick
\* is skipped for storage
TickAbort ==
  /\ tx["tick"] = "insert"
  /\ pending' = [pending EXCEPT !["tick"] = NoPending]
  /\ lock' = "none"
  /\ tx' = [tx EXCEPT !["tick"] = "skipped"]
  /\ UNCHANGED << committed, db_next, prune_cutoff, view, snapshots >>
  /\ UNCHANGED txFrame

\* StoreWriteError by lock contention: the tick is skipped for storage
TickSkip ==
  /\ tx["tick"] = "idle"
  /\ ~MayBegin(lock)
  /\ tx' = [tx EXCEPT !["tick"] = "skipped"]
  /\ UNCHANGED << committed, db_next, lock, pending, prune_cutoff, view,
                  snapshots >>
  /\ UNCHANGED txFrame

\* perform_trim_operation: cutoff_time, and the DELETE opens a transaction
PruneBegin ==
  /\ tx["compactor"] \in {"idle", "skipped"}
  /\ MayBegin(lock)
  /\ prune_cutoff' = CutoffOf(now, Horizon)
  /\ pending' = [pending EXCEPT !["compactor"] = NoPending]
  /\ lock' = "compactor"
  /\ tx' = [tx EXCEPT !["compactor"] = "prune"]
  /\ UNCHANGED << committed, db_next, view, snapshots >>
  /\ UNCHANGED txFrame

\* the DELETE removes one more row older than the cutoff
PruneDelete ==
  /\ tx["compactor"] = "prune"
  /\ \E r \in Doomed(committed, prune_cutoff) :
       /\ r.id \notin pending["compactor"].del
       /\ pending' = [pending EXCEPT !["compactor"].del = @ \cup {r.id}]
  /\ UNCHANGED << committed, db_next, lock, tx, prune_cutoff, view,
                  snapshots >>
  /\ UNCHANGED txFrame

\* conn.commit() after the DELETE
PruneCommit ==
  /\ tx["compactor"] = "prune"
  /\ \A r \in Doomed(committed, prune_cutoff) :
       r.id \in pending["compactor"].del
  /\ committed' = Apply(committed, pending["compactor"])
  /\ snapshots' = snapshots \cup {committed'}
  /\ pending' = [pending EXCEPT !["compactor"] = NoPending]
  /\ lock' = "none"
  /\ tx' = [tx EXCEPT !["compactor"] = "pruned"]
  /\ UNCHANGED << db_next, prune_cutoff, view >>
  /\ UNCHANGED txFrame

\* conn.execute("VACUUM") begins: it runs as a write transaction of its own
ReclaimBegin ==
  /\ tx["compactor"] = "pruned"
  /\ MayBegin(lock)
  /\ lock' = "compactor"
  /\ tx' = [tx EXCEPT !["compactor"] = "reclaim"]
  /\ UNCHANGED << committed, db_next, pending, prune_cutoff, view,
                  snapshots >>
  /\ UNCHANGED txFrame

\* the VACUUM has rewritten the file
ReclaimEnd ==
  /\ tx["compactor"] = "reclaim"
  /\ committed' = Vacuum(committed)
  /\ snapshots' = snapshots \cup {committed'}
  /\ lock' = "none"
  /\ tx' = [tx EXCEPT !["compactor"] = "idle"]
  /\ UNCHANGED << db_next, pending, prune_cutoff, view >>
  /\ UNCHANGED txFrame

\* CompactionError inside the prune or the reclaim: rolled back, retried
\* on the next cycle
CompactorAbort ==
  /\ tx["compactor"] \in {"prune", "reclaim"}
  /\ pending' = [pending EXCEPT !["compactor"] = NoPending]
  /\ lock' = "none"
  /\ tx' = [tx EXCEPT !["compactor"] = "skipped"]
  /\ UNCHANGED << committed, db_next, prune_cutoff, view, snapshots >>
  /\ UNCHANGED txFrame

\* CompactionError by lock contention, before the prune or before the
\* reclaim
CompactorSkip ==
  /\ tx["compactor"] \in {"idle", "pruned"}
  /\ ~MayBegin(lock)
  /\ tx' = [tx EXCEPT !["compactor"] = "skipped"]
  /\ UNCHANGED << committed, db_next, lock, pending, prune_cutoff, view,
                  snapshots >>
  /\ UNCHANGED txFrame

\* the SELECT of an export, at any moment
ExportRead ==
  /\ LET c == CutoffOf(now, Horizon)
     IN view' = [ taken  |-> TRUE,
                  cutoff |-> c,
                  rows   |-> Window(Read(committed, pending), c) ]
  /\ UNCHANGED << committed, db_next, lock, tx, pending, prune_cutoff,
                  snapshots >>
  /\ UNCHANGED txFrame

\* the file holds up to MaxSeed old rows when the tasks start
InitStore ==
  /\ zone = FixedZone
  /\ Idle
  /\ NoProcess
  /\ CleanHost
  /\ NoLoop
  /\ NoServer
  /\ \E n \in 0..MaxSeed :
       /\ committed = RowsOf(1, SeedMetrics(n))
       /\ db_next = n + 1
  /\ snapshots = {committed}
  /\ lock = "none"
  /\ tx = [t \in Tasks |-> "idle"]
  /\ pending = [t \in Tasks |-> NoPending]
  /\ prune_cutoff = 0
  /\ view = NoView

NextStore ==
  \/ TickBegin
  \/ TickInsert
  \/ TickCommit
  \/ TickAbort
  \/ TickSkip
  \/ PruneBegin
  \/ PruneDelete
  \/ PruneCommit
  \/ ReclaimBegin
  \/ ReclaimEnd
  \/ CompactorAbort
  \/ CompactorSkip
  \/ ExportRead

SpecStore == InitStore /\ [][NextStore]_vars
\* ------------------------------------------------------------ server.py
\* A path is the sequence of its names and separators. The server runs in
\* the directory that holds gpu-stats.html and history/, where the scripts
\* keep gpu_metrics.db and publish history.json.
Sep == "/"
Page == << "gpu-stats.html" >>
HistoryDir == << "history" >>
Document == << "history", Sep, "history.json" >>
StoreFile == << "history", Sep, "gpu_metrics.db" >>

\* request.path of the GET requests the server is sent
RequestPaths ==
  { << Sep >>,
    << Sep, "gpu-stats.html" >>,
    << Sep, Sep, "gpu-stats.html", Sep >>,
    << Sep, "history", Sep, "history.json" >>,
    << Sep, "history", Sep, "gpu_metrics.db" >>,
    << Sep, "history" >>,
    << Sep, "history", Sep >>,
    << Sep, "missing" >> }

\* what the server leaves alone
webFrame == << scriptVars, zone, txVars, procVars, fsVars, unitVars, monVars >>

\* str.strip('/'): the separators at both ends are dropped
RECURSIVE LStrip(_)
LStrip(p) == IF p # <<>> /\ Head(p) = Sep THEN LStrip(Tail(p)) ELSE p
RECURSIVE RStrip(_)
RStrip(p) ==
  IF p # <<>> /\ p[Len(p)] = Sep THEN RStrip(SubSeq(p, 1, Len(p) - 1)) ELSE p
Strip(p) == RStrip(LStrip(p))

\* os.path.exists: true of a regular file and of a directory
Exists(p, fs, ds) == p \in fs \cup ds

\* handle_static, lines 10-15: what the handler returns
HandleStatic(path, fs, ds) ==
  LET stripped == Strip(path)
      file_path == IF stripped = <<>> THEN Page ELSE stripped
  IN IF Exists(file_path, fs, ds)
       THEN [type |-> "FileResponse", path |-> file_path, status |-> 200]
       ELSE [type |-> "Response", path |-> <<>>, status |-> 404]

\* the status a FileResponse of a directory ends in: 403 from the releases
\* of aiohttp that refuse what is not a regular file, 500 from those that
\* raise when they open it
DirStatuses == {403, 500}

\* what the client receives for a returned response
Answers(resp, fs) ==
  IF resp.type = "Response"
    THEN { [status |-> resp.status, body |-> <<>>] }
    ELSE IF resp.path \in fs
      THEN { [status |-> 200, body |-> resp.path] }
      ELSE { [status |-> st, body |-> <<>>] : st \in DirStatuses }

\* create_history_json: os.makedirs and the document next to the database
Publish ==
  /\ serving = "idle"
  /\ dirs' = dirs \cup {HistoryDir}
  /\ files' = files \cup {Document}
  /\ UNCHANGED << serving, request, response, answer >>
  /\ UNCHANGED webFrame

\* main: os.makedirs of the database's directory, and sqlite3.connect
\* creates the database file
StoreCreated ==
  /\ serving = "idle"
  /\ dirs' = dirs \cup {HistoryDir}
  /\ files' = files \cup {StoreFile}
  /\ UNCHANGED << serving, request, response, answer >>
  /\ UNCHANGED webFrame

\* a GET request arrives: router.add_get('/{tail:.*}', handle_static)
Get ==
  /\ serving \in {"idle", "answered"}
  /\ \E p \in RequestPaths : request' = p
  /\ response' = NoResponse
  /\ answer' = NoAnswer
  /\ serving' = "handling"
  /\ UNCHANGED << files, dirs >>
  /\ UNCHANGED webFrame

\* the handler runs
handle_static ==
  /\ serving = "handling"
  /\ response' = HandleStatic(request, files, dirs)
  /\ serving' = "preparing"
  /\ UNCHANGED << files, dirs, request, answer >>
  /\ UNCHANGED webFrame

\* aiohttp sends what the handler returned
Prepare ==
  /\ serving = "preparing"
  /\ answer' \in Answers(response, files)
  /\ serving' = "answered"
  /\ UNCHANGED << files, dirs, request, response >>
  /\ UNCHANGED webFrame

\* the connection is done with
Finish ==
  /\ serving = "answered"
  /\ serving' = "idle"
  /\ UNCHANGED << files, dirs, request, response, answer >>
  /\ UNCHANGED webFrame

\* the server starts in a directory with or without the dashboard page
InitServe ==
  /\ zone = FixedZone
  /\ Idle
  /\ NoProcess
  /\ CleanHost
  /\ NoLoop
  /\ NoTasks
  /\ files \in SUBSET {Page}
  /\ dirs \in SUBSET {HistoryDir}
  /\ serving = "idle"
  /\ request = NoRequest
  /\ response = NoResponse
  /\ answer = NoAnswer

NextServe ==
  \/ Publish
  \/ StoreCreated
  \/ Get
  \/ handle_static
  \/ Prepare
  \/ Finish

SpecServe == InitServe /\ [][NextServe]_vars

\* ------------------------------------------------------------ properties
Loads == {"load", "load3d"}
Trims == {"trim", "prune"}

\* the export query has run and result is built
Queried == export_time # 0
\* the export has written the whole document
Exported == pc \in {"close", "exited"} /\ script \in Loads /\ outcome = "ok"
\* the DELETE of the trim operation is committed
Pruned ==
  \/ pc \in {"trim_vacuum", "trim_after"}
  \/ pc \in {"close", "exited"} /\ script \in Trims /\ outcome = "ok"
\* the trim operation has reported its counts
Trimmed == pc \in {"close", "exited"} /\ script \in Trims /\ outcome = "ok"

OrderIds == { order[k] : k \in 1..Len(order) }

\* C1: the snapshot lists exactly the stored samples whose epoch is later
\* than the export time minus the horizon, in ascending epoch order, and no
\* sample at or before that limit.
C1_SnapshotIsWindow ==
  Queried =>
    LET limit == export_time - HorizonOf(script) * Res
        inside == { r \in store : r.timestamp_epoch * Res > limit }
    IN /\ OrderIds = { r.id : r \in inside }
       /\ Len(order) = Cardinality(inside)
       /\ Len(result.timestamps) = Cardinality(inside)
       /\ \A k \in 1..(Len(order) - 1) :
            RowById(store, order[k]).timestamp_epoch
              <= RowById(store, order[k + 1]).timestamp_epoch
       /\ \A r \in store :
            r.timestamp_epoch * Res <= limit => r.id \notin OrderIds

C1_Witness ==
  /\ Queried
  /\ Len(order) >= 1
  /\ \E r \in store : r.id \notin OrderIds

\* C2: the five sequences of a snapshot have one length, the number of rows
\* the window query selected, and entry i of each comes from the same row;
\* the written file holds that document.
C2_ParallelSequences ==
  /\ Queried =>
       /\ Len(result.timestamps) = Cardinality(Window(store, cutoff_time))
       /\ Len(result.temperatures) = Len(result.timestamps)
       /\ Len(result.utilizations) = Len(result.timestamps)
       /\ Len(result.memory) = Len(result.timestamps)
       /\ Len(result.power) = Len(result.timestamps)
       /\ Len(order) = Len(result.timestamps)
       /\ \A k \in 1..Len(order) :
            \E r \in store :
              /\ r.id = order[k]
              /\ result.timestamps[k] = r.timestamp
              /\ result.temperatures[k] = r.temperature
              /\ result.utilizations[k] = r.utilization
              /\ result.memory[k] = r.memory
              /\ result.power[k] = r.power
  /\ Exported => Parses(history_json) /\ Load(history_json) = result

C2_Witness ==
  /\ Exported
  /\ Len(result.power) = 2
  /\ result.power[1] # result.power[2]

\* C3: a reader that opens the snapshot during an export that replaces a
\* published document gets the whole previous or the whole new document.
C3_AtomicReplace ==
  (pc \in ExportPcs /\ Parses(prev_file) /\ observed # NoRead)
    => observed \in { prev_file, Dump(result) }

\* C4: after a failed export the published snapshot still has its previous
\* complete content.
C4_FailedExportKeepsPrevious ==
  (pc = "exited" /\ outcome = "export_failed" /\ Parses(prev_file))
    => history_json = prev_file

\* C5: the prune of the trim operation deletes the samples with epoch below
\* the cutoff and no other, the kept samples are unchanged, and the reported
\* deleted count is the count before minus the count after.
C5_PruneDeletesOlderOnly ==
  /\ Pruned =>
       /\ store = { r \in begin_store : r.timestamp_epoch >= cutoff_time }
       /\ \A r \in begin_store : r.timestamp_epoch < cutoff_time => r \notin store
  /\ Trimmed =>
       /\ deleted_count = Cardinality(begin_store) - Cardinality(store)
       /\ deleted_count
            = Cardinality({ r \in begin_store : r.timestamp_epoch < cutoff_time })

C5_Witness ==
  /\ Trimmed
  /\ deleted_count >= 1
  /\ store # {}

\* C6: a second prune with the same cutoff and no insert since the first
\* deletes nothing and leaves the store as it was.
C6_PruneIdempotent ==
  (Trimmed /\ last_prune.repeat) => deleted_count = 0 /\ store = begin_store

C6_Witness ==
  /\ Trimmed
  /\ last_prune.repeat
  /\ store # {}

\* C7: a batch insert is all or nothing: right after its commit the count
\* is up by the size of the batch; after a failure between BEGIN and commit
\* the committed rows and their count are what they were at BEGIN.
C7_BatchAllOrNothing ==
  /\ (pc = "pop_loop" /\ i > 0) =>
       count_records(store)
         = Cardinality(begin_store) + Len(Slice(metrics, i - batch_size, batch_size))
  /\ (pc = "old_loop" /\ i = num_records /\ num_records > 0) =>
       count_records(store) = Cardinality(begin_store) + num_records
  /\ (pc \in {"close", "exited"} /\ outcome = "batch_failed") =>
       /\ store = begin_store
       /\ count_records(store) = Cardinality(begin_store)
       /\ \A r \in store : r.id < nextId

C7_Witness ==
  /\ pc = "close"
  /\ outcome = "batch_failed"
  /\ txn # {}
  /\ begin_store # {}

\* C8 as claimed: after the prune the remaining count is the number of
\* samples in the export window of the same cutoff (epoch > cutoff), for a
\* store that holds samples on both sides of the horizon.
C8_RemainingEqualsExportWindow ==
  ( /\ Trimmed
    /\ \E r \in begin_store : r.timestamp_epoch < cutoff_time
    /\ \E r \in begin_store : r.timestamp_epoch >= cutoff_time )
    => after_count = Cardinality(Window(begin_store, cutoff_time))

\* C8 as amended: the remaining count is the number of samples in the
\* export window plus the samples whose epoch is the cutoff itself.
C8_RemainingEqualsWindowPlusBoundary ==
  Trimmed =>
    after_count
      = Cardinality(Window(begin_store, cutoff_time))
        + Cardinality({ r \in begin_store : r.timestamp_epoch = cutoff_time })

C8_Witness ==
  /\ Trimmed
  /\ deleted_count >= 1
  /\ \E r \in store : r.timestamp_epoch = cutoff_time

\* C9: every generated sample, pending or stored, has temperature in
\* [20, 95], utilization in [0, 100], memory in [500, 12000] and power in
\* [10, 350] or the unavailable value.
InRange(m) ==
  /\ m.temperature \in TempLo..TempHi
  /\ m.utilization \in UtilLo..UtilHi
  /\ m.memory \in MemLo..MemHi
  /\ m.power \in PowerLo..PowerHi \/ m.power = PowerNA

C9_SamplesInRange ==
  /\ \A k \in 1..Len(metrics) : InRange(metrics[k])
  /\ \A r \in store \cup txn : InRange(r)

C9_Witness ==
  \E r1, r2 \in store :
    /\ r1.temperature = TempLo /\ r1.memory = MemHi /\ r1.power = PowerLo
    /\ r2.temperature = TempHi /\ r2.utilization = UtilHi /\ r2.memory = MemLo

C11_EpochsNonDecreasing ==
  \A k \in 1..(Len(metrics) - 1) :
    metrics[k + 1].timestamp_epoch >= metrics[k].timestamp_epoch

\* C12: when create_db_schema returns, the table gpu_metrics with its seven
\* columns and the index on timestamp_epoch both exist, and the call did
\* not fail and changed or removed no row, whether or not the schema was
\* there before.
C12_SchemaIdempotent ==
  [][ (pc = "schema" /\ pc' # "schema")
        => /\ pc' = "gen"
           /\ {TableName, IndexName} \subseteq schema'
           /\ schema \subseteq schema'
           /\ store' = store
           /\ nextId' = nextId
           /\ \A r \in store' : DOMAIN r = Columns ]_vars

\* create_db_schema has just returned on a database that already had the
\* schema and a committed row
C12_Witness ==
  /\ pc = "gen"
  /\ metrics = <<>>
  /\ store # {}
  /\ {TableName, IndexName} \subseteq schema

\* a call of method m has come back and its caller has not yet gone on
Returned(m) == method = m /\ ipc = "return"

\* C13: check_service_status returns True only if systemctl reported the
\* service 'active (running)' and, in one of at most 6 polls 5 seconds
\* apart, gpu_current_stats.json was there and parsed as JSON; in every
\* other case (service not running, file absent or never valid) it comes
\* to an end and returns False.
C13_StatusTrueOnlyIfVerified ==
  /\ Returned("check_service_status") =>
       /\ ret \in {"True", "False"}
       /\ ret = "True" =>
            /\ env.active
            /\ env.file = "valid"
            /\ polls < MaxPolls
            /\ slept = polls * PollSleep
       /\ (~env.active \/ polls = MaxPolls) => ret = "False"
  /\ (method = "check_service_status" /\ ipc = "poll") =>
       /\ polls <= MaxPolls
       /\ slept = polls * PollSleep
       /\ ENABLED StatusLoop
  /\ (method = "check_service_status" /\ ipc = "run") =>
       ENABLED check_service_status

\* the file was not valid at first and check_service_status returned True
\* once a later poll found it valid
C13_Witness ==
  /\ Returned("check_service_status")
  /\ ret = "True"
  /\ polls > 0

\* C14: for --start the installer calls its eight steps in the fixed order,
\* each only if every earlier one returned True; the success message is
\* printed only if all eight returned True, and otherwise the process prints
\* the failure message and exits with status 1 without running a later step.
C14_StartRunsStepsInOrder ==
  (cmd = "start" /\ ran # <<>>) =>
    /\ Len(ran) <= Len(StartSteps)
    /\ \A k \in 1..Len(ran) :
         /\ ran[k].step = StartSteps[k]
         /\ k < Len(ran) => ran[k].ret = "True"
    /\ ipc = "exited" =>
         /\ "success" \in printed <=>
              /\ Len(ran) = Len(StartSteps)
              /\ ran[Len(ran)].ret = "True"
         /\ "success" \notin printed =>
              /\ "failure" \in printed
              /\ exit_status = << 1 >>

\* C15: check_prerequisites always ends by returning a boolean, True if the
\* required commands, the Python version, systemd and a working nvidia-smi
\* are all there and False otherwise; it never ends in an uncaught error.
C15_PrerequisitesReturnsBool ==
  Returned("check_prerequisites") =>
    ret = Str(env.which /\ env.python /\ env.systemd /\ env.smi # "none")

\* C16: check_and_install_dependencies returns True whenever apt-get is
\* present, apt-get update succeeds, the install command exits with status
\* 0 and every required command is found afterwards.
C16_DependenciesTrueWhenInstalled ==
  ( /\ Returned("check_and_install_dependencies")
    /\ env.apt /\ env.update /\ env.install /\ env.which ) => ret = "True"

\* C17: whenever start_service returns True the monitor is running at that
\* moment, and start_service returns in every execution: it is never left
\* waiting for a monitor loop that does not exit.
C17_StartServiceVerifiesRunning ==
  /\ (Returned("start_service") /\ ret = "True") => monitor = "running"
  /\ ~(method = "start_service" /\ ipc = "wait")

\* C18: after cleanup returns True the unit file, /opt/gpu-monitor and the
\* two log files do not exist; on a host that has none of them cleanup
\* returns True and runs no systemctl command.
C18_CleanupRemovesAll ==
  Returned("cleanup") =>
    /\ ret = "True" =>
         /\ ~service_file
         /\ ~app_dir
         /\ log_files = {}
    /\ env.clean =>
         /\ ret = "True"
         /\ systemctl = <<>>

\* cleanup returned True on a host that had the unit file and the logs
C18_Witness ==
  /\ Returned("cleanup")
  /\ ret = "True"
  /\ ~env.clean
  /\ Len(systemctl) = 3

\* the steps of the current tick that were carried out
Done(step) == \E k \in 1..Len(steps) : steps[k] = step

\* C19: within a tick the steps come in the fixed order acquire, sanitize,
\* store, (conditionally) compact, export; the export of a tick never
\* begins before the tick's sample is stored, and no document lists a
\* sample that is not in the store at the time of the export.
C19_StoreBeforeExport ==
  /\ \A j, k \in 1..Len(steps) : j < k => Rank(steps[j]) < Rank(steps[k])
  /\ Done("store") => Done("acquire") /\ Done("sanitize")
  /\ (loop = "Exporting" \/ Done("export")) =>
       /\ Done("store")
       /\ \E r \in store :
            /\ r.id = nextId - 1
            /\ RowOf(r.id, sample) = r
  /\ Done("export") =>
       \A k \in 1..Len(order) :
         \E r \in store :
           /\ r.id = order[k]
           /\ r.timestamp = result.timestamps[k]
           /\ r.power = result.power[k]

\* a whole tick with the compactor due: the document lists this tick's
\* sample and an earlier one
C19_Witness ==
  /\ loop = "Idle"
  /\ steps = TickOrder
  /\ Len(order) >= 2
  /\ order[Len(order)] = nextId - 1

\* C20: a transient failure of a tick (acquisition, store write,
\* compaction, export) never halts the loop: it is back at Idle (after the
\* export, for a failed compaction), from where the next tick can begin; the
\* loop is Stopped only by a shutdown signal or by a configuration error at
\* start-up.
C20_FailureNeverHalts ==
  /\ loop = "Stopped" =>
       \/ stopped_by = "shutdown" /\ shutdown
       \/ stopped_by = "config" /\ ticks = 0 /\ failure = "none"
  /\ (failure # "none" /\ loop # "Stopped") =>
       \/ loop = "Idle"
       \/ failure = "CompactionError" /\ loop = "Exporting"
  /\ (loop = "Idle" /\ ~shutdown /\ ticks < MaxLoopTicks) => ENABLED BeginTick
  /\ loop \in {"Acquiring", "Sanitizing", "Storing", "Compacting",
               "Exporting"} =>
       ENABLED (Acquire \/ Sanitize \/ Store \/ Compact \/ Export)

\* a tick failed and the next tick has begun
C20_Witness ==
  /\ loop = "Acquiring"
  /\ ticks = 2
  /\ export_time = 0
  /\ store = {}

\* C21: the writer transactions of the sampling tick and of the retention
\* compactor are serialized: in no reachable state is an insert transaction
\* of the tick open together with a prune or reclaim transaction of the
\* compactor, and what an export read returns is the window of a content
\* the file held after some commit, never part of a batch or of a prune.
C21_WritersSerialized ==
  /\ ~(tx["tick"] = "insert" /\ tx["compactor"] \in {"prune", "reclaim"})
  /\ view.taken =>
       \E s \in snapshots : view.rows = Window(s, view.cutoff)

\* an export read ran while the tick's batch was open and left it out, and
\* the compactor was turned away by the lock
C21_Witness ==
  /\ tx["tick"] = "insert"
  /\ pending["tick"].ins # {}
  /\ tx["compactor"] = "skipped"
  /\ view.taken
  /\ view.rows = Window(committed, view.cutoff)
  /\ view.rows # Window(Apply(committed, pending["tick"]), view.cutoff)

\* C22: the server never touches the store: whatever the request path,
\* the client never receives the content of history/gpu_metrics.db.
C22_StoreNeverServed == answer.body # StoreFile

\* C23: every GET request has exactly one outcome: gpu-stats.html for a
\* path that is empty once its slashes are stripped, if that file exists;
\* the named file for a stripped path that names an existing file; status
\* 404 for every other request; and the files of the served directory are
\* as they were.
C23_OneOutcome ==
  serving = "answered" =>
    LET p == Strip(request)
        named == IF p = <<>> THEN Page ELSE p
    IN answer = IF named \in files
                  THEN [status |-> 200, body |-> named]
                  ELSE [status |-> 404, body |-> <<>>]

\* C24: every record add_old_records adds has an epoch earlier than two
\* days before the clock, so the trim that follows deletes all of them:
\* the count it reports afterwards is at most the count the table had
\* before the records were added, and equals the number of those earlier
\* rows whose epoch is at or after the cutoff.
C24_OldRecordsAllTrimmed ==
  ( /\ script = "trim"
    /\ \/ pc \in {"trim_delete", "trim_vacuum", "trim_after"}
       \/ pc \in {"close", "exited"} /\ outcome \in {"ok", "trim_failed"} ) =>
    LET added == { r \in begin_store : r.id >= nextId - num_records }
        initial == begin_store \ added
    IN /\ Cardinality(added) = num_records
       /\ \A r \in added :
            /\ r.timestamp_epoch < EpochOf(end_time)
            /\ r.timestamp_epoch < cutoff_time
       /\ Trimmed =>
            /\ store \cap added = {}
            /\ after_count <= Cardinality(initial)
            /\ after_count =
                 Cardinality({ r \in initial :
                               r.timestamp_epoch >= cutoff_time })

\* a trim run that added a record to a table holding a row inside the
\* horizon, and kept that row only
C24_Witness ==
  /\ script = "trim"
  /\ Trimmed
  /\ num_records >= 1
  /\ after_count = 1
  /\ before_count = 1 + num_records

C26_PopulateReplaces ==
  ( /\ script \in Loads
    /\ \/ pc \in {"pop_loop", "pop_insert", "pop_commit", "exp_query"}
       \/ pc \in {"close", "exited"} /\ outcome = "batch_failed" ) =>
    LET c == Min2(i, Len(metrics))
    IN /\ store = RowsOf(nextId - c, SubSeq(metrics, 1, c))
       /\ count_records(store) = c
       /\ \E k \in 0..Len(metrics) : i = k * batch_size
       /\ pc = "exp_query" => c = Len(metrics)

\* a load that found an earlier row in the table has stored its own
\* metrics in its place
C26_Witness ==
  /\ script \in Loads
  /\ pc = "exp_query"
  /\ Len(metrics) >= 1
  /\ nextId - Len(metrics) > 1
  /\ store = RowsOf(nextId - Len(metrics), metrics)

\* C27: if a systemctl command of cleanup fails (stop, disable or
\* daemon-reload), cleanup returns False and does none of the later
\* removals: /opt/gpu-monitor and the log files are left as they were, and
\* if the command that failed is stop the unit file is still there too and
\* no other systemctl command was run.
C27_FailedSystemctlStopsCleanup ==
  [][ ( /\ ipc = "run" /\ method = "cleanup" /\ ipc' = "return"
        /\ service_file
        /\ env'.fail \in {"stop", "disable", "reload"} ) =>
        /\ ret' = "False"
        /\ app_dir' = app_dir
        /\ script_file' = script_file
        /\ stats_file' = stats_file
        /\ log_files' = log_files
        /\ env'.fail = "stop" =>
             /\ service_file'
             /\ service' = service
             /\ systemctl' = << "stop" >>
        /\ env'.fail = "disable" => service_file' ]_vars

\* cleanup returned False after daemon-reload failed, with the unit file
\* unlinked and /opt/gpu-monitor and the logs still there
C27_Witness ==
  /\ Returned("cleanup")
  /\ ret = "False"
  /\ env.fail = "reload"
  /\ ~service_file
  /\ app_dir
  /\ log_files # {}
  /\ systemctl = << "stop", "disable", "daemon-reload" >>

\* the time from the start of the 3-day load to its export query, in ticks
Elapsed3d == export_time - end_time

\* every generated sample is in the result of the export
AllExported3d ==
  /\ Len(result.timestamps) = Len(metrics)
  /\ OrderIds = { r.id : r \in store }
  /\ \A k \in 1..Len(metrics) : metrics[k].timestamp_epoch > cutoff_time

====
